---- MODULE Spec2Model ----
(***************************************************************************)
(* The per-turn RAG pipeline of the Financial Insight Engine                *)
(* (src/app/assistant): AgentService.process_sync runs the graph            *)
(* query_construct -> check_cache -> (END | retrieve -> generate_answer     *)
(* -> END) for one thread id, checkpointing the conversation state after    *)
(* every node.  Each chat request runs in its own worker thread             *)
(* (asyncio.to_thread), the workers share the semantic cache, the           *)
(* checkpoint store and the two locked local models.                        *)
(***************************************************************************)
EXTENDS Integers, Sequences, FiniteSets, TLC

(***************************************************************************)
(* Bounds of the model.                                                     *)
(***************************************************************************)
\* process_sync calls started over a behaviour
MaxCalls == 3

Workers == {"w1", "w2"}
Threads == {"T1", "T2"}
NoWorker == "none"

\* user texts of the chat requests (non-empty)
UserTexts == {"q1", "q2"}
\* rewrites the refiner model can produce; "" is an empty rewrite
Rewrites == {"r1", ""}
\* texts the local generation model can produce; "" is empty output
GenTexts == {"a1", ""}

(***************************************************************************)
(* Fixed texts of the program.                                              *)
(***************************************************************************)
ApologyError == "I apologize, but I encountered an error while generating a response."
ApologyEmpty == "I apologize, but I was unable to generate a response for this query."
NoDocsMarker == "No relevant documents were found."
FirstQuestionMarker == "This is the first question from the user."
Apologies == {ApologyError, ApologyEmpty}

\* similarity threshold of a cache hit and the cosine scale, in hundredths
CacheHitThreshold == 90
One == 100
\* the neutral score of a failed reranking, in tenths
NeutralScore == 5
\* size of the context handed to generation
TopM == 2

(***************************************************************************)
(* Messages and the conversation state (FinancialAnalysisState).            *)
(***************************************************************************)
HumanMessage(text) == [role |-> "user", content |-> text]
AIMessage(text) == [role |-> "assistant", content |-> text]

\* Metadata(): both fields default to None
Metadata == [company |-> "None", category |-> "None"]
Filters == {Metadata, [company |-> "AAPL", category |-> "risks"]}

\* QueryConstruct(filter, refined_query); kind "absent" is a state key never
\* written, kind "None" the value None
QueryConstruct(f, rq) == [kind |-> "sq", filter |-> f, refined_query |-> rq]
AbsentQuery == [kind |-> "absent", filter |-> Metadata, refined_query |-> ""]
NoneQuery == [kind |-> "None", filter |-> Metadata, refined_query |-> ""]

\* the state of a thread that has no checkpoint: no key is set
EmptyState ==
    [messages |-> << >>, structured_query |-> AbsentQuery,
     docs_set |-> FALSE, source_documents |-> << >>, cache_hit |-> "absent"]

\* a channel without the reducer: the input replaces the stored messages
add_messagesOverwrite(left, right) == right

\* add_messages applied to the input of process_sync: the new message is
\* appended to the messages of the latest checkpoint
add_messages(left, right) == left \o right

(***************************************************************************)
(* Sequence helpers.                                                        *)
(***************************************************************************)
Take(s, n) == SubSeq(s, 1, IF Len(s) < n THEN Len(s) ELSE n)
Last(s) == s[Len(s)]
IsPrefix(s, t) == Len(s) <= Len(t) /\ SubSeq(t, 1, Len(s)) = s

(***************************************************************************)
(* Embedding provider and the semantic cache (CacheService).                *)
(***************************************************************************)
\* cosine distance, in hundredths, between the embeddings of two texts: the
\* same text embeds to the same vector, a paraphrase lands near it
CosineDistance(a, b) ==
    IF a = b THEN 0
    ELSE IF {a, b} = {"q1", "q2"} THEN 4
    ELSE IF {a, b} = {"q1", "r1"} THEN 10
    ELSE IF {a, b} = {"q2", "r1"} THEN 11
    ELSE 60

\* Document(page_content=query, metadata={"response": response})
CacheDocument(query, response) == [page_content |-> query, response |-> response]

\* similarity_search_with_score(query, k=1): the possible results, each a list
\* of at most one (document, distance) pair; among equally near entries the
\* store returns any one
similarity_search_with_score(store, query) ==
    IF store = << >> THEN {<< >>}
    ELSE {<<[doc |-> store[i], score |-> CosineDistance(store[i].page_content, query)]>> :
            i \in {j \in 1..Len(store) :
                     \A k \in 1..Len(store) :
                        CosineDistance(store[j].page_content, query)
                          <= CosineDistance(store[k].page_content, query)}}

\* a hit test that excludes the boundary
IsCacheHitStrict(similarity_score) == similarity_score > CacheHitThreshold

\* the hit test of get_cached_response_sync
IsCacheHit(similarity_score) == similarity_score >= CacheHitThreshold

\* get_cached_response_sync on one search result: the stored response or "None"
get_cached_response_sync(search_results) ==
    IF search_results = << >> THEN "None"
    ELSE LET similarity_score == One - search_results[1].score
         IN  IF IsCacheHit(similarity_score)
             THEN search_results[1].doc.response
             ELSE "None"

\* ttl=self._ttl_seconds, 24 hours, in units of 12 hours
TtlHalfDays == 2

\* the time at which the server expires an entry written at time `now`
ExpiresAt(now) == now + TtlHalfDays

\* a store that was given no time-to-live: nothing ever expires
ExpiredNever(expires_at, now) == FALSE

\* an entry whose time-to-live has elapsed: the server no longer returns it
Expired(expires_at, now) == expires_at <= now

\* the entries of the store a search can still return
LiveEntries(store, expiry) ==
    LET live == {i \in 1..Len(store) : ~Expired(expiry.expires_at[i], expiry.now)}
        F[i \in 0..Len(store)] ==
            IF i = 0 THEN << >>
            ELSE IF i \in live THEN Append(F[i - 1], store[i]) ELSE F[i - 1]
    IN  F[Len(store)]

\* Python truthiness of an Optional[str]
Truthy(text) == text # "None" /\ text # ""

(***************************************************************************)
(* Hybrid retrieval (RetrievalService).                                     *)
(***************************************************************************)
Doc(text, company, category) ==
    [page_content |-> text, company |-> company, category |-> category]
c1 == Doc("d1", "AAPL", "risks")
c2 == Doc("d2", "MSFT", "risks")
c3 == Doc("d1", "AAPL", "management_dis")
c4 == Doc("d3", "AAPL", "risks")
c5 == Doc("d4", "AAPL", "risks")
c6 == Doc("d5", "MSFT", "financials")
c7 == Doc("d6", "AAPL", "risks")
\* orders in which an index can rank the collection for a query
Rankings == { << >>, <<c1, c2>>, <<c2, c4>>, <<c3, c4, c1, c2>> }

\* results a branch returns per query
SemanticK == 3
KeywordK == 3

\* a where clause that keeps one equality when several fields are set (the
\* else branch taken for every non-empty filter)
_build_where_clauseSingle(metadata_filter) ==
    LET cleaned_filter ==
            {kv \in {<<"company", metadata_filter.company>>,
                     <<"category", metadata_filter.category>>} : kv[2] # "None"}
    IN  IF cleaned_filter = {} THEN [op |-> "None", eq |-> {}]
        ELSE [op |-> "$eq", eq |-> {CHOOSE kv \in cleaned_filter : TRUE}]

\* _build_where_clause: no clause, one equality, or an $and of equalities
_build_where_clause(metadata_filter) ==
    LET cleaned_filter ==
            {kv \in {<<"company", metadata_filter.company>>,
                     <<"category", metadata_filter.category>>} : kv[2] # "None"}
    IN  IF cleaned_filter = {} THEN [op |-> "None", eq |-> {}]
        ELSE IF Cardinality(cleaned_filter) > 1 THEN [op |-> "$and", eq |-> cleaned_filter]
        ELSE [op |-> "$eq", eq |-> cleaned_filter]

\* a document passes a where clause when it meets each of its equalities
MatchesWhere(doc, where_clause) ==
    \A kv \in where_clause.eq :
        IF kv[1] = "company" THEN doc.company = kv[2] ELSE doc.category = kv[2]

\* Chroma similarity_search(query, filter, k): the first k filtered documents
\* of the ranking
similarity_search(ranking, where_clause, k) ==
    Take(SelectSeq(ranking, LAMBDA d : MatchesWhere(d, where_clause)), k)

\* _semantic_search_sync
_semantic_search_sync(ranking, metadata_filter) ==
    similarity_search(ranking, _build_where_clause(metadata_filter), SemanticK)

\* _keyword_search_sync: BM25 with k = 3, no filter
_keyword_search_sync(ranking) == Take(ranking, KeywordK)

RECURSIVE DedupLoop(_, _, _)
DedupLoop(documents, seen_contents, unique_docs) ==
    IF documents = << >> THEN unique_docs
    ELSE LET doc == Head(documents)
         IN  IF doc.page_content \notin seen_contents
             THEN DedupLoop(Tail(documents), seen_contents \cup {doc.page_content},
                            Append(unique_docs, doc))
             ELSE DedupLoop(Tail(documents), seen_contents, unique_docs)

\* a deduplication that puts each new document in front (insert(0, doc)
\* instead of append): its output comes out in reverse, and so does a second
\* pass over it
_deduplicate_documentsPrepending(documents) ==
    LET unique_docs == DedupLoop(documents, {}, << >>)
    IN  [i \in 1..Len(unique_docs) |-> unique_docs[Len(unique_docs) + 1 - i]]

\* _deduplicate_documents
_deduplicate_documents(documents) == DedupLoop(documents, {}, << >>)

\* a hybrid search that concatenates and leaves the duplicates in
hybrid_search_syncNoDedup(semantic_docs, keyword_docs) == semantic_docs \o keyword_docs

\* hybrid_search_sync on the two branch results
hybrid_search_sync(semantic_docs, keyword_docs) ==
    _deduplicate_documents(semantic_docs \o keyword_docs)

(***************************************************************************)
(* Reranking (AgentService.retrieve, lines 100-106).                        *)
(***************************************************************************)
\* scores the cross-encoder can give a passage, in tenths
ScoreValues == {2, 8}

\* _reranker_model.predict(pairs) for one query: the score of a pair depends
\* on its passage, not on its place in the list
CrossEncoderScores(scoring, documents) ==
    [i \in 1..Len(documents) |-> scoring[documents[i].page_content]]

\* the neutral scores rerank_documents_sync returns when predict raises
NeutralScores(documents) == [i \in 1..Len(documents) |-> NeutralScore]

\* zip(scores, docs)
Zip(scores, docs) == [i \in 1..Len(docs) |-> [score |-> scores[i], doc |-> docs[i]]]

\* an insertion that puts p before the elements of equal score
InsertDescTiesFirst(sorted, p) ==
    LET n == Cardinality({i \in 1..Len(sorted) : sorted[i].score > p.score})
    IN  SubSeq(sorted, 1, n) \o <<p>> \o SubSeq(sorted, n + 1, Len(sorted))

\* insert p after every element whose score is >= p.score
InsertDesc(sorted, p) ==
    LET n == Cardinality({i \in 1..Len(sorted) : sorted[i].score >= p.score})
    IN  SubSeq(sorted, 1, n) \o <<p>> \o SubSeq(sorted, n + 1, Len(sorted))

RECURSIVE SortLoop(_, _)
SortLoop(pairs, sorted) ==
    IF pairs = << >> THEN sorted
    ELSE SortLoop(Tail(pairs), InsertDesc(sorted, Head(pairs)))

\* sorted(pairs, key=lambda x: x[0], reverse=True): stable, descending
SortedByScoreDesc(pairs) == SortLoop(pairs, << >>)

\* a selection that takes the first candidates without sorting them
TopDocumentsUnsorted(scores, docs) ==
    LET top_docs == Take(docs, TopM)
    IN  [i \in 1..Len(top_docs) |-> top_docs[i].page_content]

\* top_docs and the page contents stored as source_documents
TopDocuments(scores, docs) ==
    LET scored_docs == SortedByScoreDesc(Zip(scores, docs))
        top_docs == Take(scored_docs, TopM)
    IN  [i \in 1..Len(top_docs) |-> top_docs[i].doc.page_content]

(***************************************************************************)
(* Generation (AgentService.generate_answer).                               *)
(***************************************************************************)
RECURSIVE Join(_, _)
\* sep.join(parts)
Join(sep, parts) ==
    IF parts = << >> THEN ""
    ELSE IF Len(parts) = 1 THEN parts[1]
    ELSE parts[1] \o sep \o Join(sep, Tail(parts))

\* a context block without the marker: the join alone, empty when nothing was
\* retained
ContextJoinOnly(source_documents) == Join("\n\n", source_documents)

\* the context block of generate_answer
Context(source_documents) ==
    IF source_documents # << >> THEN Join("\n\n", source_documents) ELSE NoDocsMarker

\* the answer appended and cached: an empty answer becomes an apology
AnswerOrApology(answer) == IF answer = "" THEN ApologyEmpty ELSE answer

(***************************************************************************)
(* State.                                                                   *)
(***************************************************************************)
VARIABLES
    pc,            \* per worker: where its process_sync call stands
    tid,           \* per worker: the thread id of its call
    state,         \* per worker: the graph state the nodes read and return
    docs,          \* per worker: the local `docs` of retrieve
    answer,        \* per worker: the local `answer` of generate_answer
    checkpoints,   \* per thread id: the latest checkpoint of the saver
    cache_store,   \* the entries of the semantic cache, in store order
    phi3_lock,     \* holder of ModelService._phi3_lock
    reranker_lock, \* holder of ModelService._reranker_lock
    started,       \* process_sync calls started so far
    trace,         \* per worker: the steps its turn has started, in order
    log,           \* per worker: what the sub-components did in its turn
    calls,         \* per thread id: the finished calls, in order of return
    overlapped,    \* per thread id: two calls on it have run at the same time
    hist,          \* what the latest history read returned, until the next step
    generations,   \* turns that invoked the generation model
    cache_writes,  \* entries ever stored in the cache
    env,           \* the workload of the behaviour: who calls, and what the
                   \* models, the indexes and the stores can answer
    conversations, \* thread ids that have a Conversation record
    workflow,      \* AgentService.workflow: "None" or the built "StateGraph"
    clock          \* the cache server's time and the time at which it
                   \* expires each cache entry, in store order

vars == <<pc, tid, state, docs, answer, checkpoints, cache_store, phi3_lock,
          reranker_lock, started, trace, log, calls, overlapped, hist,
          generations, cache_writes, env,
          conversations, workflow, clock>>

\* a lock that never excludes
LockedNever(lock) == FALSE

\* threading.Lock: taken by one worker at a time
Locked(lock) == lock # NoWorker

NoCheckpoint == [exists |-> FALSE, values |-> EmptyState]
NoLog ==
    [query |-> "", before |-> << >>, conversation_context |-> "-",
     refiner |-> "-", lookup |-> "-",
     looked |-> << >>, looked_at |-> 0, found |-> "None", retrieval |-> "-",
     where |-> [op |-> "-", eq |-> {}], rerank |-> "-",
     context |-> "-", generation |-> "-", cache_write |-> "-"]
NoHist == [thread |-> "-", ok |-> TRUE, messages |-> << >>, error |-> "-"]

\* the expiry times of a store whose entries were all written at time 0
FreshAtZero(store) == [i \in 1..Len(store) |-> ExpiresAt(0)]

\* the state after construction under a workload, with a cache whose entries
\* expire at the given times; StartWith: after initialize_services as well
Constructed(workload, store, expires_at) ==
    /\ env = workload
    /\ conversations = Threads
    /\ clock = [now |-> 0, expires_at |-> expires_at]
    /\ pc = [w \in Workers |-> "idle"]
    /\ tid = [w \in Workers |-> "-"]
    /\ state = [w \in Workers |-> EmptyState]
    /\ docs = [w \in Workers |-> << >>]
    /\ answer = [w \in Workers |-> ""]
    /\ checkpoints = [t \in Threads |-> NoCheckpoint]
    /\ cache_store = store
    /\ phi3_lock = NoWorker
    /\ reranker_lock = NoWorker
    /\ started = 0
    /\ trace = [w \in Workers |-> << >>]
    /\ log = [w \in Workers |-> NoLog]
    /\ calls = [t \in Threads |-> << >>]
    /\ overlapped = [t \in Threads |-> FALSE]
    /\ hist = NoHist
    /\ generations = 0
    /\ cache_writes = 0

StartWith(workload, store, expires_at) ==
    /\ Constructed(workload, store, expires_at)
    /\ workflow = "StateGraph"

Start(workload, store) == StartWith(workload, store, FreshAtZero(store))

\* one worker at a time, every outcome of every sub-component
Sequential ==
    [serves |-> [w \in {"w1"} |-> {"T1"}], readers |-> {"T1"}, calls |-> MaxCalls,
     texts |-> UserTexts, filters |-> {Metadata}, rewrites |-> {"r1"},
     semantic |-> {<< >>, <<c1, c2>>}, keyword |-> {<< >>, <<c1, c2>>},
     scorings |-> [{"d1", "d2"} -> ScoreValues],
     generated |-> GenTexts, faults |-> {}, deletable |-> {}, cuda |-> TRUE]

Init == Start(Sequential, << >>)

\* one call against a cache that earlier runs of the service have filled: the
\* cache lives in Redis and outlasts the process
CacheCalls == 1
StoredKeys == {"q1", "q2", "r1"}
StoredAnswers == {"a1", "a2"}
StoredDocuments == {CacheDocument(k, a) : k \in StoredKeys, a \in StoredAnswers}
InitialStores ==
    {<< >>} \cup {<<d>> : d \in StoredDocuments}
            \cup {<<d, e>> : d \in StoredDocuments, e \in StoredDocuments}
WarmCache ==
    [serves |-> [w \in {"w1"} |-> {"T1"}], readers |-> {"T1"}, calls |-> CacheCalls,
     texts |-> UserTexts, filters |-> {Metadata}, rewrites |-> {"r1"},
     semantic |-> {<< >>, <<c1, c2>>}, keyword |-> {<< >>, <<c1, c2>>},
     scorings |-> [{"d1", "d2"} -> ScoreValues],
     generated |-> {"a1"}, faults |-> {}, deletable |-> {}, cuda |-> TRUE]

InitCache == \E store \in InitialStores : Start(WarmCache, store)

\* two chat requests at a time, each in its own worker thread: the second
\* worker's request is for the first one's conversation or for another one
ConcurrentCalls == 2
Concurrent ==
    [serves |-> [w \in Workers |-> IF w = "w1" THEN {"T1"} ELSE Threads],
     readers |-> {"T1"}, calls |-> ConcurrentCalls,
     texts |-> {"q1"}, filters |-> {Metadata}, rewrites |-> {"r1"},
     semantic |-> {<<c1>>}, keyword |-> {<< >>, <<c1>>},
     scorings |-> [{"d1"} -> ScoreValues],
     generated |-> {"a1"}, faults |-> {}, deletable |-> {}, cuda |-> TRUE]

InitConcurrent == Start(Concurrent, << >>)

\* one call with one index answer per branch and one filter, over every
\* combination of them: the inputs of hybrid_search_sync
HybridCalls == 1
RetrievalRankings ==
    { << >>, <<c1, c2, c4>>, <<c5, c6, c7>>, <<c3, c4, c1, c2>>, <<c2, c5>> }
DocTexts == {"d1", "d2", "d3", "d4", "d5", "d6"}
Hybrid(semantic_ranking, keyword_ranking, metadata_filter) ==
    [Sequential EXCEPT
        !.calls = HybridCalls, !.texts = {"q1"}, !.generated = {"a1"},
        !.filters = {metadata_filter},
        !.semantic = {semantic_ranking}, !.keyword = {keyword_ranking},
        !.scorings = {[t \in DocTexts |-> IF t \in {"d2", "d5"} THEN 8 ELSE 2]}]

InitHybrid ==
    \E semantic_ranking \in RetrievalRankings, keyword_ranking \in RetrievalRankings,
       metadata_filter \in Filters :
        Start(Hybrid(semantic_ranking, keyword_ranking, metadata_filter), << >>)

\* one call with one to four candidates, under every assignment of scores to
\* their passages: the inputs of the reranking of retrieve
RerankCalls == 1
RerankTexts == {"d1", "d2", "d3", "d4"}
Reranking(scoring) ==
    [Sequential EXCEPT
        !.calls = RerankCalls, !.texts = {"q1"}, !.generated = {"a1"},
        !.semantic = {<< >>, <<c1, c2, c4>>}, !.keyword = {<<c1>>, <<c5, c2>>},
        !.scorings = {scoring}]

InitRerank == \E scoring \in [RerankTexts -> ScoreValues] : Start(Reranking(scoring), << >>)

\* one call under every filter the refiner can emit over two companies and
\* the two categories, each field set or left None: the inputs of
\* _build_where_clause
FilterCalls == 1
FilterSpace ==
    [company : {"None", "AAPL", "MSFT"}, category : {"None", "risks", "management_dis"}]
FilterRankings == { <<c3, c2, c1, c6, c4>>, <<c6, c5, c3, c2>> }
Filtering(metadata_filter, semantic_ranking) ==
    [Sequential EXCEPT
        !.calls = FilterCalls, !.texts = {"q1"}, !.generated = {"a1"},
        !.filters = {metadata_filter},
        !.semantic = {semantic_ranking}, !.keyword = {<< >>},
        !.scorings = {[t \in DocTexts |-> IF t \in {"d2", "d5"} THEN 8 ELSE 2]}]

InitFilter ==
    \E metadata_filter \in FilterSpace, semantic_ranking \in FilterRankings :
        Start(Filtering(metadata_filter, semantic_ranking), << >>)

\* the service as constructed, before startup, on a host with or without CUDA
StartupCalls == 2
Startup(cuda) == [Sequential EXCEPT !.calls = StartupCalls, !.cuda = cuda]
InitStartup ==
    \E cuda \in BOOLEAN :
        /\ Constructed(Startup(cuda), << >>, << >>)
        /\ workflow = "None"

\* the checkpoint store can fail on any write
PersistCalls == 2
Persisting == [Sequential EXCEPT !.calls = PersistCalls, !.faults = {"checkpoint"}]
InitPersist == Start(Persisting, << >>)

\* the conversation of the thread can be deleted at any time
DeleteCalls == 2
Deleting == [Sequential EXCEPT !.calls = DeleteCalls, !.deletable = {"T1"}]
InitDelete == Start(Deleting, << >>)

\* two chat requests at a time on two conversations, one worker each, with
\* the same question; the first conversation can be deleted at any time
SharedCalls == 2
Shared ==
    [Concurrent EXCEPT
        !.serves = [w \in Workers |-> IF w = "w1" THEN {"T1"} ELSE {"T2"}],
        !.calls = SharedCalls, !.semantic = {<<c1>>}, !.keyword = {<< >>},
        !.scorings = {[t \in {"d1"} |-> 8]}, !.deletable = {"T1"}]
InitShared == Start(Shared, << >>)

\* two chat requests at a time, each on its own conversation, their worker
\* threads scheduled fairly; nothing else goes on
LiveCalls == 2
Contending == [Shared EXCEPT !.calls = LiveCalls, !.readers = {}, !.deletable = {}]
InitLive == Start(Contending, << >>)

\* two chat requests at a time on one conversation
OverlapCalls == 2
Overlapping ==
    [Concurrent EXCEPT
        !.serves = [w \in Workers |-> {"T1"}],
        !.calls = OverlapCalls, !.semantic = {<<c1>>}, !.keyword = {<< >>},
        !.scorings = {[t \in {"d1"} |-> 8]}]
InitOverlap == Start(Overlapping, << >>)


\* a cache filled at different times before the call
TtlCalls == 1
Aging ==
    [WarmCache EXCEPT
        !.calls = TtlCalls, !.texts = {"q1"},
        !.semantic = {<<c1, c2>>}, !.keyword = {<< >>},
        !.scorings = {[t \in {"d1", "d2"} |-> 8]}]
TtlKeys == {"q2", "r1"}
TtlStores ==
    {<< >>} \cup {<<CacheDocument(k, "a1")>> : k \in TtlKeys}
            \cup {<<CacheDocument(k, "a1"), CacheDocument(l, "a2")>> : k \in TtlKeys, l \in TtlKeys}
InitTtl ==
    \E store \in TtlStores :
        \E expires_at \in [1..Len(store) -> 1..TtlHalfDays] :
            StartWith(Aging, store, expires_at)

\* the refiner's rewrite can be empty
RefineCalls == 2
Refining == [Sequential EXCEPT !.calls = RefineCalls, !.rewrites = Rewrites]
InitRefine == Start(Refining, << >>)

\* a saver that merges on write: it keeps the turns already checkpointed when
\* they are more than the ones it is given
PutCheckpointMerging(t, values) ==
    checkpoints' =
        [checkpoints EXCEPT
            ![t] = [exists |-> TRUE,
                    values |-> IF Len(checkpoints[t].values.messages) > Len(values.messages)
                               THEN [values EXCEPT
                                       !.messages = checkpoints[t].values.messages]
                               ELSE values]]

\* a saver that ignores the thread id of the run: every thread's latest
\* checkpoint becomes the state it is given
PutCheckpointEveryThread(t, values) ==
    checkpoints' = [u \in Threads |-> [exists |-> TRUE, values |-> values]]

\* the saver's put after a node: the node's returned state becomes the latest
\* checkpoint of the thread
PutCheckpoint(t, values) ==
    checkpoints' = [checkpoints EXCEPT ![t] = [exists |-> TRUE, values |-> values]]

\* the put after a step of graph.invoke: it stores the checkpoint and the run
\* goes on, or the checkpoint store fails, nothing is stored and the error
\* leaves invoke and process_sync
Checkpointed(w, t, values, next) ==
    \/ /\ PutCheckpoint(t, values)
       /\ pc' = [pc EXCEPT ![w] = next]
    \/ /\ "checkpoint" \in env.faults
       /\ pc' = [pc EXCEPT ![w] = "put_raised"]
       /\ UNCHANGED checkpoints

(***************************************************************************)
(* process_sync: graph.invoke({"messages": [HumanMessage(query)]}, config)  *)
(***************************************************************************)
StartProcess(w, t, query) ==
    /\ pc[w] = "idle"
    /\ w \in DOMAIN env.serves /\ t \in env.serves[w] /\ query \in env.texts
    /\ started < env.calls
    \* the chat route calls process_sync only for a conversation it has found
    /\ t \in conversations
    \* lines 122-123
    /\ workflow # "None"
    /\ LET loaded == checkpoints[t].values
           values == [loaded EXCEPT
                        !.messages = add_messages(loaded.messages, <<HumanMessage(query)>>)]
       IN  /\ state' = [state EXCEPT ![w] = values]
           /\ Checkpointed(w, t, values, "query_construct")
           /\ log' = [log EXCEPT ![w] = [NoLog EXCEPT !.query = query,
                                                     !.before = loaded.messages]]
    /\ tid' = [tid EXCEPT ![w] = t]
    /\ started' = started + 1
    /\ trace' = [trace EXCEPT ![w] = << >>]
    /\ overlapped' = [overlapped EXCEPT
                        ![t] = @ \/ \E v \in Workers \ {w} : pc[v] # "idle" /\ tid[v] = t]
    /\ hist' = NoHist
    /\ UNCHANGED <<docs, answer, cache_store, phi3_lock, reranker_lock, calls,
                   generations, cache_writes, env,
                   conversations, workflow, clock>>

(***************************************************************************)
(* Node query_construct.                                                    *)
(***************************************************************************)
\* analyze_query_sync: what structured_llm.invoke can do and what the method
\* then returns.  "ok": a parsed QueryConstruct; "none": the model produced no
\* structured output and invoke returned None; "raised": invoke raised (an
\* API error, or output that fails validation) and the except branch built
\* the fallback
analyze_query_sync(query) ==
    {[how |-> "ok", value |-> QueryConstruct(f, rq)] : f \in env.filters, rq \in env.rewrites}
      \cup {[how |-> "none", value |-> NoneQuery]}
      \cup {[how |-> "raised", value |-> QueryConstruct(Metadata, query)]}

\* "User: ..." or "Assistant: ..." for one message
Labelled(m) == (IF m.role = "user" THEN "User" ELSE "Assistant") \o ": " \o m.content

\* a context taken one message too late, messages[-2:]: it holds the latest
\* user message itself
ConversationContextWithLatest(messages) ==
    IF Len(messages) > 1
    THEN LET context_messages == SubSeq(messages, Len(messages) - 1, Len(messages))
         IN  Join("\n", [i \in 1..Len(context_messages) |-> Labelled(context_messages[i])])
    ELSE FirstQuestionMarker

\* lines 69-75: the marker on a thread's first message, otherwise
\* messages[-3:-1], one labelled line each
ConversationContext(messages) ==
    IF Len(messages) > 1
    THEN LET first == IF Len(messages) - 2 < 1 THEN 1 ELSE Len(messages) - 2
             context_messages == SubSeq(messages, first, Len(messages) - 1)
         IN  Join("\n", [i \in 1..Len(context_messages) |-> Labelled(context_messages[i])])
    ELSE FirstQuestionMarker

\* lines 67-77: read the latest user text, build the context and enter
\* analyze_query_sync, which takes no lock
query_construct(w) ==
    /\ pc[w] = "query_construct"
    /\ log' = [log EXCEPT ![w].conversation_context = ConversationContext(state[w].messages)]
    /\ trace' = [trace EXCEPT ![w] = Append(@, "RefineQuery")]
    /\ pc' = [pc EXCEPT ![w] = "analyze"]
    /\ hist' = NoHist
    /\ UNCHANGED <<tid, state, docs, answer, checkpoints, cache_store, phi3_lock,
                   reranker_lock, started, calls, overlapped, generations,
                   cache_writes, env,
                   conversations, workflow, clock>>

\* the remote call returns and line 78 stores what analyze_query_sync returned
analyze(w) ==
    /\ pc[w] = "analyze"
    /\ LET messages == state[w].messages
           query == Last(messages).content
       IN  \E out \in analyze_query_sync(query) :
             /\ state' = [state EXCEPT ![w].structured_query = out.value]
             /\ log' = [log EXCEPT ![w].refiner = out.how]
    /\ Checkpointed(w, tid[w], state'[w], "check_cache")
    /\ hist' = NoHist
    /\ UNCHANGED <<tid, docs, answer, cache_store, phi3_lock, reranker_lock,
                   started, trace, calls, overlapped, generations, cache_writes, env,
                   conversations, workflow, clock>>

(***************************************************************************)
(* Node check_cache and the conditional edge after it.                      *)
(***************************************************************************)
\* an edge that ignores the cache-hit flag
RouteAfterCacheAlwaysRetrieve(values) == "retrieve"

\* the lambda of add_conditional_edges and its path map
RouteAfterCache(values) ==
    IF values.cache_hit = "True" THEN "END" ELSE "retrieve"

\* a check_cache that appends the cached answer and leaves the flag unset
CheckCacheResultNoFlag(values, search_results) ==
    LET cached_response == get_cached_response_sync(search_results)
    IN  IF Truthy(cached_response)
        THEN [values EXCEPT !.messages = Append(@, AIMessage(cached_response)),
                            !.cache_hit = "False"]
        ELSE [values EXCEPT !.cache_hit = "False"]

\* a cache check that resets the stored source documents on a hit
CheckCacheResultClearingDocuments(values, search_results) ==
    LET cached_response == get_cached_response_sync(search_results)
    IN  IF Truthy(cached_response)
        THEN [values EXCEPT !.messages = Append(@, AIMessage(cached_response)),
                            !.cache_hit = "True",
                            !.source_documents = << >>, !.docs_set = TRUE]
        ELSE [values EXCEPT !.cache_hit = "False"]

\* a cache check that writes the flag on a hit only: after a miss the flag is
\* the one the thread's checkpoint held
CheckCacheResultKeepingFlagOnMiss(values, search_results) ==
    LET cached_response == get_cached_response_sync(search_results)
    IN  IF Truthy(cached_response)
        THEN [values EXCEPT !.messages = Append(@, AIMessage(cached_response)),
                            !.cache_hit = "True"]
        ELSE values

\* check_cache from the search result on: the state the node returns
CheckCacheResult(values, search_results) ==
    LET cached_response == get_cached_response_sync(search_results)
    IN  IF Truthy(cached_response)
        THEN [values EXCEPT !.messages = Append(@, AIMessage(cached_response)),
                            !.cache_hit = "True"]
        ELSE [values EXCEPT !.cache_hit = "False"]

\* the node: it raises when structured_query is None (line 82) or when the
\* cache store's search raises (line 84), and then writes no checkpoint;
\* otherwise it runs to its end and the conditional edge is taken
check_cache(w) ==
    /\ pc[w] = "check_cache"
    /\ trace' = [trace EXCEPT ![w] = Append(@, "CheckCache")]
    /\ hist' = NoHist
    /\ \/ /\ state[w].structured_query.kind # "sq"
          /\ log' = [log EXCEPT ![w].lookup = "no_query"]
          /\ pc' = [pc EXCEPT ![w] = "raised"]
          /\ UNCHANGED <<state, checkpoints>>
       \/ /\ state[w].structured_query.kind = "sq"
          /\ log' = [log EXCEPT ![w].lookup = "raised"]
          /\ pc' = [pc EXCEPT ![w] = "raised"]
          /\ UNCHANGED <<state, checkpoints>>
       \/ /\ state[w].structured_query.kind = "sq"
          /\ LET refined_query == state[w].structured_query.refined_query
                 entries == LiveEntries(cache_store, clock)
             IN  \E search_results \in
                       similarity_search_with_score(entries, refined_query) :
                   /\ state' = [state EXCEPT ![w] = CheckCacheResult(@, search_results)]
                   /\ log' = [log EXCEPT
                                ![w].lookup = "ok",
                                ![w].looked = entries,
                                ![w].looked_at = clock.now,
                                ![w].found = get_cached_response_sync(search_results)]
          /\ Checkpointed(w, tid[w], state'[w],
                          IF RouteAfterCache(state'[w]) = "END" THEN "done" ELSE "retrieve")
    /\ UNCHANGED <<tid, docs, answer, cache_store, phi3_lock, reranker_lock,
                   started, calls, overlapped, generations, cache_writes, env,
                   conversations, workflow, clock>>

(***************************************************************************)
(* Node retrieve: hybrid search (line 96), then reranking (lines 97-106).   *)
(***************************************************************************)
\* a hybrid search that applies the metadata filter to the keyword branch as
\* well
hybrid_searchFilteringKeyword(w) ==
    /\ pc[w] = "retrieve"
    /\ trace' = [trace EXCEPT ![w] = Append(@, "Retrieve")]
    /\ hist' = NoHist
    /\ \/ /\ log' = [log EXCEPT ![w].retrieval = "semantic_raised"]
          /\ pc' = [pc EXCEPT ![w] = "raised"]
          /\ UNCHANGED docs
       \/ /\ log' = [log EXCEPT ![w].retrieval = "keyword_raised"]
          /\ pc' = [pc EXCEPT ![w] = "raised"]
          /\ UNCHANGED docs
       \/ \E semantic_ranking \in env.semantic, keyword_ranking \in env.keyword :
            LET metadata_filter == state[w].structured_query.filter
                semantic_docs == _semantic_search_sync(semantic_ranking, metadata_filter)
                keyword_docs ==
                    similarity_search(keyword_ranking,
                                      _build_where_clause(metadata_filter), KeywordK)
            IN  /\ docs' = [docs EXCEPT ![w] = hybrid_search_sync(semantic_docs, keyword_docs)]
                /\ log' = [log EXCEPT ![w].retrieval = "ok",
                                      ![w].where = _build_where_clause(metadata_filter)]
                /\ pc' = [pc EXCEPT ![w] = "rerank"]
    /\ UNCHANGED <<tid, state, answer, checkpoints, cache_store, phi3_lock,
                   reranker_lock, started, calls, overlapped, generations,
                   cache_writes, env,
                   conversations, workflow, clock>>

\* hybrid search: either branch can raise, and nothing in hybrid_search_sync
\* or in the node catches it
hybrid_search(w) ==
    /\ pc[w] = "retrieve"
    /\ trace' = [trace EXCEPT ![w] = Append(@, "Retrieve")]
    /\ hist' = NoHist
    /\ \/ /\ log' = [log EXCEPT ![w].retrieval = "semantic_raised"]
          /\ pc' = [pc EXCEPT ![w] = "raised"]
          /\ UNCHANGED docs
       \/ /\ log' = [log EXCEPT ![w].retrieval = "keyword_raised"]
          /\ pc' = [pc EXCEPT ![w] = "raised"]
          /\ UNCHANGED docs
       \/ \E semantic_ranking \in env.semantic, keyword_ranking \in env.keyword :
            LET metadata_filter == state[w].structured_query.filter
                semantic_docs == _semantic_search_sync(semantic_ranking, metadata_filter)
                keyword_docs == _keyword_search_sync(keyword_ranking)
            IN  /\ docs' = [docs EXCEPT ![w] = hybrid_search_sync(semantic_docs, keyword_docs)]
                /\ log' = [log EXCEPT ![w].retrieval = "ok",
                                      ![w].where = _build_where_clause(metadata_filter)]
                /\ pc' = [pc EXCEPT ![w] = "rerank"]
    /\ UNCHANGED <<tid, state, answer, checkpoints, cache_store, phi3_lock,
                   reranker_lock, started, calls, overlapped, generations,
                   cache_writes, env,
                   conversations, workflow, clock>>

\* lines 97-98: no candidates, nothing to score; or line 100: enter
\* rerank_documents_sync and take the reranker lock
rerank(w) ==
    /\ pc[w] = "rerank"
    /\ trace' = [trace EXCEPT ![w] = Append(@, "Rerank")]
    /\ hist' = NoHist
    /\ \/ /\ docs[w] = << >>
          /\ state' = [state EXCEPT ![w].source_documents = << >>,
                                    ![w].docs_set = TRUE]
          /\ Checkpointed(w, tid[w], state'[w], "generate")
          /\ log' = [log EXCEPT ![w].rerank = "skipped"]
          /\ UNCHANGED reranker_lock
       \/ /\ docs[w] # << >>
          /\ ~Locked(reranker_lock)
          /\ reranker_lock' = w
          /\ pc' = [pc EXCEPT ![w] = "predict"]
          /\ UNCHANGED <<state, checkpoints, log>>
    /\ UNCHANGED <<tid, docs, answer, cache_store, phi3_lock, started, calls,
                   overlapped, generations, cache_writes, env,
                   conversations, workflow, clock>>

\* a scoring call that leaves the reranker lock taken when predict raises
predictKeepingLockOnRaise(w) ==
    /\ pc[w] = "predict"
    /\ hist' = NoHist
    /\ \/ \E scoring \in env.scorings :
            LET scores == CrossEncoderScores(scoring, docs[w])
            IN  /\ state' = [state EXCEPT
                               ![w].source_documents = TopDocuments(scores, docs[w]),
                               ![w].docs_set = TRUE]
                /\ log' = [log EXCEPT ![w].rerank = "ok"]
                /\ reranker_lock' = NoWorker
       \/ /\ state' = [state EXCEPT
                         ![w].source_documents =
                             TopDocuments(NeutralScores(docs[w]), docs[w]),
                         ![w].docs_set = TRUE]
          /\ log' = [log EXCEPT ![w].rerank = "raised"]
          /\ UNCHANGED reranker_lock
    /\ Checkpointed(w, tid[w], state'[w], "generate")
    /\ UNCHANGED <<tid, docs, answer, cache_store, phi3_lock, started, trace,
                   calls, overlapped, generations, cache_writes, env,
                   conversations, workflow, clock>>

\* rerank_documents_sync inside the lock: predict scores every pair, or it
\* raises and every candidate gets the neutral score; then lines 104-106
predict(w) ==
    /\ pc[w] = "predict"
    /\ reranker_lock' = NoWorker
    /\ hist' = NoHist
    /\ \/ \E scoring \in env.scorings :
            LET scores == CrossEncoderScores(scoring, docs[w])
            IN  /\ state' = [state EXCEPT
                               ![w].source_documents = TopDocuments(scores, docs[w]),
                               ![w].docs_set = TRUE]
                /\ log' = [log EXCEPT ![w].rerank = "ok"]
       \/ /\ state' = [state EXCEPT
                         ![w].source_documents =
                             TopDocuments(NeutralScores(docs[w]), docs[w]),
                         ![w].docs_set = TRUE]
          /\ log' = [log EXCEPT ![w].rerank = "raised"]
    /\ Checkpointed(w, tid[w], state'[w], "generate")
    /\ UNCHANGED <<tid, docs, answer, cache_store, phi3_lock, started, trace,
                   calls, overlapped, generations, cache_writes, env,
                   conversations, workflow, clock>>

(***************************************************************************)
(* Node generate_answer.                                                    *)
(***************************************************************************)
\* lines 110-113: build the context and enter run_phi3_inference_sync, which
\* takes the generation lock
generate_answer(w) ==
    /\ pc[w] = "generate"
    /\ ~Locked(phi3_lock)
    /\ phi3_lock' = w
    /\ log' = [log EXCEPT ![w].context = Context(state[w].source_documents)]
    /\ trace' = [trace EXCEPT ![w] = Append(@, "Generate")]
    /\ generations' = generations + 1
    /\ pc' = [pc EXCEPT ![w] = "inference"]
    /\ hist' = NoHist
    /\ UNCHANGED <<tid, state, docs, answer, checkpoints, cache_store,
                   reranker_lock, started, calls, overlapped, cache_writes, env,
                   conversations, workflow, clock>>

\* what run_phi3_inference_sync returns: the decoded text, stripped, or the
\* apology of its except branch
InferenceResult(how, text) == IF how = "raised" THEN ApologyError ELSE text

\* an inference call that leaves the generation lock taken when the model
\* raises
inferenceKeepingLockOnRaise(w) ==
    /\ pc[w] = "inference"
    /\ \/ \E text \in env.generated :
            /\ answer' = [answer EXCEPT ![w] = InferenceResult("ok", text)]
            /\ log' = [log EXCEPT ![w].generation = IF text = "" THEN "empty" ELSE "ok"]
            /\ phi3_lock' = NoWorker
       \/ /\ answer' = [answer EXCEPT ![w] = InferenceResult("raised", "")]
          /\ log' = [log EXCEPT ![w].generation = "raised"]
          /\ UNCHANGED phi3_lock
    /\ pc' = [pc EXCEPT ![w] = "cache_write"]
    /\ hist' = NoHist
    /\ UNCHANGED <<tid, state, docs, checkpoints, cache_store, reranker_lock,
                   started, trace, calls, overlapped, generations, cache_writes, env,
                   conversations, workflow, clock>>

\* run_phi3_inference_sync inside the lock: the model generates a text,
\* possibly empty, or raises; the lock is released on both ways out
inference(w) ==
    /\ pc[w] = "inference"
    /\ phi3_lock' = NoWorker
    /\ \/ \E text \in env.generated :
            /\ answer' = [answer EXCEPT ![w] = InferenceResult("ok", text)]
            /\ log' = [log EXCEPT ![w].generation = IF text = "" THEN "empty" ELSE "ok"]
       \/ /\ answer' = [answer EXCEPT ![w] = InferenceResult("raised", "")]
          /\ log' = [log EXCEPT ![w].generation = "raised"]
    /\ pc' = [pc EXCEPT ![w] = "cache_write"]
    /\ hist' = NoHist
    /\ UNCHANGED <<tid, state, docs, checkpoints, cache_store, reranker_lock,
                   started, trace, calls, overlapped, generations, cache_writes, env,
                   conversations, workflow, clock>>

\* whether generate_answer stores the answer it is about to append
ShouldCache(text) == TRUE

\* a store that keeps one entry per key: a query already stored has its entry
\* overwritten
add_to_cache_syncUpsert(store, query, response) ==
    IF \E i \in 1..Len(store) : store[i].page_content = query
    THEN [i \in 1..Len(store) |->
            IF store[i].page_content = query THEN CacheDocument(query, response)
                                             ELSE store[i]]
    ELSE Append(store, CacheDocument(query, response))

\* add_to_cache_sync: one more document in the store
add_to_cache_sync(store, query, response) == Append(store, CacheDocument(query, response))

\* lines 114-118: substitute the apology for an empty answer, write the cache,
\* append the assistant message; a raising cache write ends the node before
\* the append
cache_write(w) ==
    /\ pc[w] = "cache_write"
    /\ hist' = NoHist
    /\ LET refined_query == state[w].structured_query.refined_query
           final == AnswerOrApology(answer[w])
       IN  \/ /\ ShouldCache(final)
              /\ log' = [log EXCEPT ![w].cache_write = "raised"]
              /\ pc' = [pc EXCEPT ![w] = "raised"]
              /\ UNCHANGED <<state, checkpoints, cache_store, cache_writes, clock>>
           \/ /\ IF ShouldCache(final)
                 THEN /\ cache_store' = add_to_cache_sync(cache_store, refined_query, final)
                      /\ clock' = [clock EXCEPT
                                     !.expires_at = Append(@, ExpiresAt(clock.now))]
                      /\ cache_writes' = cache_writes + 1
                      /\ log' = [log EXCEPT ![w].cache_write = "ok"]
                 ELSE UNCHANGED <<cache_store, cache_writes, log, clock>>
              /\ state' = [state EXCEPT ![w].messages = Append(@, AIMessage(final))]
              /\ Checkpointed(w, tid[w], state'[w], "done")
    /\ UNCHANGED <<tid, docs, answer, phi3_lock, reranker_lock, started, trace,
                   calls, overlapped, generations, env,
                   conversations, workflow>>

(***************************************************************************)
(* Return of process_sync, and the history read.                            *)
(***************************************************************************)
Raised == "<raised>"

\* what the caller of process_sync gets: the content of the last message of
\* the final state, or the exception
Returned(w) ==
    IF pc[w] = "done" THEN Last(state[w].messages).content ELSE Raised

return(w) ==
    /\ pc[w] \in {"done", "raised", "put_raised"}
    /\ calls' = [calls EXCEPT ![tid[w]] =
                    Append(@, [query |-> log[w].query, answer |-> Returned(w)])]
    /\ pc' = [pc EXCEPT ![w] = "idle"]
    /\ tid' = [tid EXCEPT ![w] = "-"]
    /\ state' = [state EXCEPT ![w] = EmptyState]
    /\ docs' = [docs EXCEPT ![w] = << >>]
    /\ answer' = [answer EXCEPT ![w] = ""]
    /\ trace' = [trace EXCEPT ![w] = << >>]
    /\ log' = [log EXCEPT ![w] = NoLog]
    /\ hist' = NoHist
    /\ UNCHANGED <<checkpoints, cache_store, phi3_lock, reranker_lock, started,
                   overlapped, generations, cache_writes, env,
                   conversations, workflow, clock>>

\* a read that lets the error of the checkpoint store through to its caller
get_conversation_history_syncRaising(t) ==
    /\ t \in env.readers
    /\ workflow # "None"
    /\ \/ hist' = [NoHist EXCEPT
                     !.thread = t,
                     !.messages = IF checkpoints[t].exists
                                  THEN checkpoints[t].values.messages ELSE << >>]
       \/ hist' = [NoHist EXCEPT !.thread = t, !.ok = FALSE, !.error = Raised]
    /\ UNCHANGED <<pc, tid, state, docs, answer, checkpoints, cache_store,
                   phi3_lock, reranker_lock, started, trace, log, calls,
                   overlapped, generations, cache_writes, env,
                   conversations, workflow, clock>>

\* a read that creates the checkpoint it does not find
get_conversation_history_syncCreating(t) ==
    /\ t \in env.readers
    /\ workflow # "None"
    /\ hist' = [NoHist EXCEPT !.thread = t, !.messages = checkpoints[t].values.messages]
    /\ checkpoints' = [checkpoints EXCEPT ![t].exists = TRUE]
    /\ UNCHANGED <<pc, tid, state, docs, answer, cache_store,
                   phi3_lock, reranker_lock, started, trace, log, calls,
                   overlapped, generations, cache_writes, env,
                   conversations, workflow, clock>>

\* get_conversation_history_sync: the messages of the latest checkpoint, the
\* empty list when there is none or when reading the store raises
get_conversation_history_sync(t) ==
    /\ t \in env.readers
    \* lines 134-135
    /\ workflow # "None"
    /\ \/ hist' = [NoHist EXCEPT
                     !.thread = t,
                     !.messages = IF checkpoints[t].exists
                                  THEN checkpoints[t].values.messages ELSE << >>]
       \/ hist' = [NoHist EXCEPT !.thread = t, !.ok = FALSE]
    /\ UNCHANGED <<pc, tid, state, docs, answer, checkpoints, cache_store,
                   phi3_lock, reranker_lock, started, trace, log, calls,
                   overlapped, generations, cache_writes, env,
                   conversations, workflow, clock>>

(***************************************************************************)
(* Startup, calls on a service that is not initialized, deletion of a       *)
(* conversation, and the passing of time at the cache server.               *)
(***************************************************************************)
\* a startup that builds the graph whatever became of the model load
initialize_servicesIgnoringFailure ==
    /\ workflow = "None"
    /\ workflow' = "StateGraph"
    /\ hist' = NoHist
    /\ UNCHANGED <<pc, tid, state, docs, answer, checkpoints, cache_store,
                   phi3_lock, reranker_lock, started, trace, log, calls,
                   overlapped, generations, cache_writes, env, conversations, clock>>

\* initialize_services: ModelService.initialize raises SystemError when CUDA
\* is not available, gather re-raises it and line 63 is not reached
initialize_services ==
    /\ workflow = "None"
    /\ workflow' = IF env.cuda THEN "StateGraph" ELSE "None"
    /\ hist' = NoHist
    /\ UNCHANGED <<pc, tid, state, docs, answer, checkpoints, cache_store,
                   phi3_lock, reranker_lock, started, trace, log, calls,
                   overlapped, generations, cache_writes, env, conversations, clock>>

NotInitialized == "AgentService not initialized. Call initialize_services() first."

\* process_sync, lines 122-123: no workflow, RuntimeError
process_sync_not_initialized(w, t, query) ==
    /\ pc[w] = "idle"
    /\ w \in DOMAIN env.serves /\ t \in env.serves[w] /\ query \in env.texts
    /\ started < env.calls
    /\ t \in conversations
    /\ workflow = "None"
    /\ calls' = [calls EXCEPT ![t] = Append(@, [query |-> query, answer |-> NotInitialized])]
    /\ started' = started + 1
    /\ hist' = NoHist
    /\ UNCHANGED <<pc, tid, state, docs, answer, checkpoints, cache_store,
                   phi3_lock, reranker_lock, trace, log, overlapped, generations,
                   cache_writes, env, conversations, workflow, clock>>

\* get_conversation_history_sync, lines 134-135: no workflow, RuntimeError
history_not_initialized(t) ==
    /\ t \in env.readers
    /\ workflow = "None"
    /\ hist' = [NoHist EXCEPT !.thread = t, !.ok = FALSE, !.error = NotInitialized]
    /\ UNCHANGED <<pc, tid, state, docs, answer, checkpoints, cache_store,
                   phi3_lock, reranker_lock, started, trace, log, calls,
                   overlapped, generations, cache_writes, env,
                   conversations, workflow, clock>>

\* a deletion that also empties the semantic cache
delete_conversationPurgingCache(t) ==
    /\ t \in env.deletable
    /\ t \in conversations
    /\ conversations' = conversations \ {t}
    /\ \/ checkpoints' = [checkpoints EXCEPT ![t] = NoCheckpoint]
       \/ UNCHANGED checkpoints
    /\ cache_store' = << >>
    /\ clock' = [clock EXCEPT !.expires_at = << >>]
    /\ hist' = NoHist
    /\ UNCHANGED <<pc, tid, state, docs, answer,
                   phi3_lock, reranker_lock, started, trace, log, calls,
                   overlapped, generations, cache_writes, env, workflow>>

\* ConversationController.delete_conversation: the record is deleted and
\* committed, then the checkpoints are deleted; an error of the checkpoint
\* database is logged by _delete_langgraph_checkpoints_sync and goes no further
delete_conversation(t) ==
    /\ t \in env.deletable
    /\ t \in conversations
    /\ conversations' = conversations \ {t}
    /\ \/ checkpoints' = [checkpoints EXCEPT ![t] = NoCheckpoint]
       \/ UNCHANGED checkpoints
    /\ hist' = NoHist
    /\ UNCHANGED <<pc, tid, state, docs, answer, cache_store,
                   phi3_lock, reranker_lock, started, trace, log, calls,
                   overlapped, generations, cache_writes, env, workflow, clock>>

\* half a day passes at the cache server
MaxClock == 3
Tick ==
    /\ clock.now < MaxClock
    /\ clock' = [clock EXCEPT !.now = @ + 1]
    /\ hist' = NoHist
    /\ UNCHANGED <<pc, tid, state, docs, answer, checkpoints, cache_store,
                   phi3_lock, reranker_lock, started, trace, log, calls,
                   overlapped, generations, cache_writes, env,
                   conversations, workflow>>

Next ==
    \/ \E w \in Workers, t \in Threads, query \in UserTexts : StartProcess(w, t, query)
    \/ \E w \in Workers : query_construct(w)
    \/ \E w \in Workers : analyze(w)
    \/ \E w \in Workers : check_cache(w)
    \/ \E w \in Workers : hybrid_search(w)
    \/ \E w \in Workers : rerank(w)
    \/ \E w \in Workers : predict(w)
    \/ \E w \in Workers : generate_answer(w)
    \/ \E w \in Workers : inference(w)
    \/ \E w \in Workers : cache_write(w)
    \/ \E w \in Workers : return(w)
    \/ \E t \in Threads : get_conversation_history_sync(t)

Spec == Init /\ [][Next]_vars
SpecCache == InitCache /\ [][Next]_vars
SpecConcurrent == InitConcurrent /\ [][Next]_vars
SpecHybrid == InitHybrid /\ [][Next]_vars

\* the service from its construction on, with and without the accelerator
NextStartup ==
    \/ initialize_services
    \/ \E w \in Workers, t \in Threads, query \in UserTexts :
          process_sync_not_initialized(w, t, query)
    \/ \E t \in Threads : history_not_initialized(t)
    \/ Next
SpecStartup == InitStartup /\ [][NextStartup]_vars

\* chat and history requests with the checkpoint store failing at times
SpecPersist == InitPersist /\ [][Next]_vars

\* chat, history and delete requests for one conversation
NextDelete == Next \/ \E t \in Threads : delete_conversation(t)
SpecDelete == InitDelete /\ [][NextDelete]_vars

\* one cache under the chats of two conversations and the deletion of one
SpecShared == InitShared /\ [][NextDelete]_vars

\* overlapping chats of one conversation
SpecOverlap == InitOverlap /\ [][Next]_vars

\* the steps of the process_sync call a worker thread is running
Worker(w) ==
    \/ query_construct(w)
    \/ analyze(w)
    \/ check_cache(w)
    \/ hybrid_search(w)
    \/ rerank(w)
    \/ predict(w)
    \/ generate_answer(w)
    \/ inference(w)
    \/ cache_write(w)
    \/ return(w)

\* a worker thread that can take a step is scheduled: the threads of
\* asyncio.to_thread are operating-system threads, and every model, store and
\* index call returns or raises
Fairness == \A w \in Workers : WF_vars(Worker(w))
NextLive ==
    \/ \E w \in Workers, t \in Threads, query \in UserTexts : StartProcess(w, t, query)
    \/ \E w \in Workers : Worker(w)
SpecLive == InitLive /\ [][NextLive]_vars /\ Fairness

\* the routes chat and get_messages in front of the service: the signed-in
\* users, the owner of each conversation record, and requests by either user
\* for either conversation, one of which can be deleted
OwnerCalls == 2
Users == {"u1", "u2"}
user_id == [t \in Threads |-> IF t = "T1" THEN "u1" ELSE "u2"]
Owned ==
    [Sequential EXCEPT
        !.serves = [w \in {"w1"} |-> Threads], !.readers = Threads,
        !.calls = OwnerCalls, !.texts = {"q1"}, !.generated = {"a1"},
        !.semantic = {<<c1>>}, !.keyword = {<< >>},
        !.scorings = {[t \in {"d1"} |-> 8]}, !.deletable = {"T1"}]
InitOwner == Start(Owned, << >>)

NotFound == "Conversation not found or permission denied."

\* a security check that looks for the conversation id alone
FoundAnyOwner(user, t) == t \in conversations

\* the security check of both routes: a record with this id and this user_id
Found(user, t) == t \in conversations /\ user_id[t] = user

\* route chat: HTTP 404 before anything is called when the record is not
\* found, process_sync in a worker thread otherwise
chat(w, user, t, query) ==
    \/ /\ Found(user, t)
       /\ StartProcess(w, t, query)
    \/ /\ ~Found(user, t)
       /\ w \in DOMAIN env.serves /\ t \in env.serves[w] /\ query \in env.texts
       /\ started < env.calls
       /\ calls' = [calls EXCEPT ![t] = Append(@, [query |-> query, answer |-> NotFound])]
       /\ started' = started + 1
       /\ hist' = NoHist
       /\ UNCHANGED <<pc, tid, state, docs, answer, checkpoints, cache_store,
                      phi3_lock, reranker_lock, trace, log, overlapped, generations,
                      cache_writes, env, conversations, workflow, clock>>

\* route get_messages: HTTP 404 when the record is not found,
\* get_conversation_history_sync in a worker thread otherwise
get_messages(user, t) ==
    \/ /\ Found(user, t)
       /\ get_conversation_history_sync(t)
    \/ /\ ~Found(user, t)
       /\ t \in env.readers
       /\ hist' = [NoHist EXCEPT !.thread = t, !.ok = FALSE, !.error = NotFound]
       /\ UNCHANGED <<pc, tid, state, docs, answer, checkpoints, cache_store,
                      phi3_lock, reranker_lock, started, trace, log, calls,
                      overlapped, generations, cache_writes, env,
                      conversations, workflow, clock>>

NextOwner ==
    \/ \E w \in Workers, user \in Users, t \in Threads, query \in UserTexts :
          chat(w, user, t, query)
    \/ \E user \in Users, t \in Threads : get_messages(user, t)
    \/ \E w \in Workers : Worker(w)
    \/ \E t \in Threads : delete_conversation(t)
SpecOwner == InitOwner /\ [][NextOwner]_vars

\* one call against a filled cache while time passes
NextTtl == Next \/ Tick
SpecTtl == InitTtl /\ [][NextTtl]_vars

\* a refiner that can return an empty rewrite
SpecRefine == InitRefine /\ [][Next]_vars
SpecRerank == InitRerank /\ [][Next]_vars

\* one call under each filter
SpecFilter == InitFilter /\ [][Next]_vars

(***************************************************************************)
(* Properties.                                                              *)
(***************************************************************************)
PathHit == <<"RefineQuery", "CheckCache">>
PathMiss == <<"RefineQuery", "CheckCache", "Retrieve", "Rerank", "Generate">>
\* the turn's cache check has completed
Checked(w) == log[w].lookup = "ok"
\* the two turns a call is to append to the turns checkpointed before it
Appended(w, text) == log[w].before \o <<HumanMessage(log[w].query), AIMessage(text)>>

\* C1: every process_sync call ends without an error reaching the caller and
\* has then appended to the thread's turns exactly the new user turn followed
\* by exactly one assistant turn, whatever the sub-components did.
C1_OneAssistantTurnPerCall ==
    \A w \in Workers :
        /\ pc[w] # "raised"
        /\ pc[w] = "done" =>
              /\ state[w].messages = Appended(w, Last(state[w].messages).content)
              /\ checkpoints[tid[w]].values.messages = state[w].messages

\* C2: the steps of a turn run one after another in the order RefineQuery,
\* CheckCache, then nothing more on a hit, or Retrieve, Rerank, Generate on a
\* miss: the steps started are a prefix of that order, a step starts only when
\* every earlier one has completed, and a completed turn has run exactly the
\* path its cache check chose.
C2_StepOrder ==
    \A w \in Workers :
        /\ IsPrefix(trace[w], PathMiss)
        /\ pc[w] = "query_construct" => trace[w] = << >>
        /\ pc[w] = "analyze" => trace[w] = SubSeq(PathMiss, 1, 1)
        /\ pc[w] = "check_cache" => trace[w] = SubSeq(PathMiss, 1, 1)
        /\ pc[w] = "retrieve" => trace[w] = SubSeq(PathMiss, 1, 2)
        /\ pc[w] = "rerank" => trace[w] = SubSeq(PathMiss, 1, 3)
        /\ pc[w] = "predict" => trace[w] = SubSeq(PathMiss, 1, 4)
        /\ pc[w] = "generate" => trace[w] = SubSeq(PathMiss, 1, 4)
        /\ pc[w] \in {"inference", "cache_write"} => trace[w] = PathMiss
        /\ Checked(w) /\ state[w].cache_hit = "True" => trace[w] = PathHit /\ pc[w] = "done"
        /\ Checked(w) /\ state[w].cache_hit = "False" => pc[w] # "done" \/ trace[w] = PathMiss
        /\ pc[w] = "done" => Checked(w)

\* a turn that missed the cache and scored its candidates has run all five
\* steps and is done
C2_Witness ==
    \E w \in Workers :
        /\ pc[w] = "done" /\ trace[w] = PathMiss
        /\ state[w].cache_hit = "False" /\ log[w].rerank = "ok"

\* C3: in a turn whose cache lookup returned a value, retrieval, reranking and
\* generation are not invoked, and the assistant turn appended is the stored
\* answer of the matched entry.
C3_HitShortCircuits ==
    \A w \in Workers :
        Checked(w) /\ log[w].found # "None" =>
            /\ trace[w] = PathHit
            /\ pc[w] = "done"
            /\ log[w].retrieval = "-" /\ log[w].rerank = "-" /\ log[w].generation = "-"
            /\ state[w].messages = Appended(w, log[w].found)
            /\ \E i \in 1..Len(log[w].looked) :
                  /\ log[w].looked[i].response = log[w].found
                  /\ CosineDistance(log[w].looked[i].page_content,
                                    state[w].structured_query.refined_query)
                       <= One - CacheHitThreshold

\* a turn has ended on a hit with the answer an earlier turn generated
C3_Witness ==
    \E w \in Workers :
        /\ pc[w] = "done" /\ Checked(w) /\ log[w].found = "a1"
        /\ Last(state[w].messages) = AIMessage("a1")

\* the turns N sequential calls leave: user text and returned answer per call
RECURSIVE TurnsOf(_)
TurnsOf(finished) ==
    IF finished = << >> THEN << >>
    ELSE <<HumanMessage(Head(finished).query), AIMessage(Head(finished).answer)>>
           \o TurnsOf(Tail(finished))

\* C4: after N sequential process calls on a thread id, a history read of it
\* returns 2N turns: per call, in call order, its user text and then the
\* answer it returned.
C4_HistoryRoundTrip ==
    \A t \in Threads :
        /\ hist.thread = t /\ hist.ok
        /\ ~overlapped[t]
        /\ \A w \in Workers : tid[w] # t
        => /\ Len(hist.messages) = 2 * Len(calls[t])
           /\ hist.messages = TurnsOf(calls[t])

\* the distance of the nearest entry of a store to a query
Nearest(store, query) ==
    CHOOSE d \in {CosineDistance(store[i].page_content, query) : i \in 1..Len(store)} :
        \A i \in 1..Len(store) : d <= CosineDistance(store[i].page_content, query)

\* C5: the lookup returns the stored answer of a nearest entry exactly when
\* that entry's similarity, 1 minus its distance, is >= 0.90, the value 0.90
\* included; below that, and on an empty cache, it returns none.
C5_LookupThreshold ==
    \A w \in Workers :
        Checked(w) =>
            LET store == log[w].looked
                query == state[w].structured_query.refined_query
            IN  IF store = << >> THEN log[w].found = "None"
                ELSE IF One - Nearest(store, query) >= CacheHitThreshold
                     THEN \E i \in 1..Len(store) :
                            /\ CosineDistance(store[i].page_content, query)
                                 = Nearest(store, query)
                            /\ log[w].found = store[i].response
                     ELSE log[w].found = "None"

\* a lookup has hit an entry at similarity exactly 0.90 that was not the only
\* entry of the cache
C5_Witness ==
    \E w \in Workers :
        /\ Checked(w) /\ Len(log[w].looked) = 2
        /\ One - Nearest(log[w].looked, state[w].structured_query.refined_query)
             = CacheHitThreshold
        /\ log[w].found # "None"

\* C6: the cache is written only at the end of a turn that ran generation: a
\* turn that ended on a hit has written nothing, and the entries ever stored
\* never outnumber the turns that invoked generation.
C6_CacheWrittenOnlyAfterGeneration ==
    /\ cache_writes <= generations
    /\ Len(cache_store) = cache_writes
    /\ \A w \in Workers :
          /\ log[w].cache_write = "ok" =>
                /\ trace[w] = PathMiss
                /\ log[w].generation # "-"
                /\ state[w].cache_hit = "False"
          /\ Checked(w) /\ state[w].cache_hit = "True" => log[w].cache_write = "-"

\* a turn has ended on a hit and the cache still holds the one entry written
\* by the one turn that generated
C6_Witness ==
    \E w \in Workers :
        /\ pc[w] = "done" /\ Checked(w) /\ state[w].cache_hit = "True"
        /\ cache_writes = 1 /\ generations = 1 /\ started = 2

\* C7: apology answers are never cached: no cache entry holds an apology text
\* and no lookup returns one.
C7_NoApologyCached ==
    /\ \A i \in 1..Len(cache_store) : cache_store[i].response \notin Apologies
    /\ \A w \in Workers : log[w].found \notin Apologies

\* C8: at most one worker at a time is inside the model inference section of
\* run_phi3_inference_sync, and the worker inside it holds the generation
\* lock; the refiner call is never held up, whoever holds a lock.
C8_GenerationSerialized ==
    /\ \A w, v \in Workers : pc[w] = "inference" /\ pc[v] = "inference" => w = v
    /\ \A w \in Workers : pc[w] = "inference" <=> phi3_lock = w
    /\ \A w \in Workers : pc[w] = "query_construct" => ENABLED query_construct(w)
    /\ \A w \in Workers : pc[w] = "analyze" => ENABLED analyze(w)

\* one worker is inside the inference section, the other is held at its door
C8_Witness ==
    \E w, v \in Workers :
        w # v /\ pc[w] = "inference" /\ pc[v] = "generate" /\ phi3_lock = w

\* C9: when the refiner's model raises or returns missing output, the
\* structured query is the unset filter with the user text verbatim, and the
\* turn goes on to the cache check.
C9_RefinerFallback ==
    \A w \in Workers :
        log[w].refiner \in {"none", "raised"} =>
            /\ state[w].structured_query = QueryConstruct(Metadata, log[w].query)
            /\ log[w].lookup # "no_query"

\* C10: when a branch of hybrid search fails, or both return nothing, the turn
\* is not aborted: generation is called with the "no relevant documents"
\* marker and the turn completes with a checkpointed assistant turn.
C10_RetrievalFailureRecovered ==
    \A w \in Workers :
        /\ log[w].retrieval \in {"semantic_raised", "keyword_raised"} =>
              /\ pc[w] # "raised"
              /\ log[w].generation # "-" => log[w].context = NoDocsMarker
        /\ log[w].retrieval = "ok" /\ docs[w] = << >> /\ pc[w] = "done" =>
              /\ log[w].context = NoDocsMarker
              /\ Last(checkpoints[tid[w]].values.messages).role = "assistant"

\* the passages the first M candidates of a list carry
FirstPassages(documents) ==
    [i \in 1..(IF Len(documents) < TopM THEN Len(documents) ELSE TopM) |->
        documents[i].page_content]

\* C11: when scoring fails on a non-empty candidate set, the retrieval step
\* completes and the passages stored for generation are the first M = 2
\* candidates of the de-duplicated union in retrieval order, all of them when
\* there are fewer; generation is then called with exactly those passages, and
\* the turn is not aborted by the scoring failure.
C11_ScoringFailureKeepsCandidates ==
    \A w \in Workers :
        log[w].rerank = "raised" =>
            /\ docs[w] # << >>
            /\ state[w].source_documents = FirstPassages(docs[w])
            /\ pc[w] \in {"generate", "inference", "cache_write", "done", "raised"}
            /\ pc[w] = "raised" => log[w].cache_write = "raised"
            /\ pc[w] \in {"inference", "cache_write", "done"} =>
                  log[w].context = Join("\n\n", FirstPassages(docs[w]))

\* scoring failed on four candidates and the turn completed on the first two
C11_Witness ==
    \E w \in Workers :
        /\ log[w].rerank = "raised" /\ pc[w] = "done"
        /\ Len(docs[w]) = 4
        /\ state[w].source_documents = <<"d1", "d2">>

\* the score assignment of a workload that has exactly one
TheScoring == CHOOSE scoring \in env.scorings : TRUE

\* C12: for every candidate set and every score assignment, reranking returns
\* min(2, number of candidates) passages, each of them a candidate and none
\* twice, never a strictly higher-scored one after a strictly lower-scored
\* one, and no candidate left out scores strictly higher than one returned.
C12_RerankTopM ==
    \A w \in Workers :
        log[w].rerank = "ok" =>
            LET returned == state[w].source_documents
                candidates == {docs[w][i].page_content : i \in 1..Len(docs[w])}
                left_out == candidates \ {returned[i] : i \in 1..Len(returned)}
            IN  /\ Len(returned) <= TopM
                /\ Len(returned) = IF Len(docs[w]) < 2 THEN Len(docs[w]) ELSE 2
                /\ \A i \in 1..Len(returned) : returned[i] \in candidates
                /\ \A i, j \in 1..Len(returned) : returned[i] = returned[j] => i = j
                /\ \A i, j \in 1..Len(returned) :
                      i < j => TheScoring[returned[i]] >= TheScoring[returned[j]]
                /\ \A t \in left_out : \A i \in 1..Len(returned) :
                      TheScoring[t] <= TheScoring[returned[i]]

\* four candidates were scored, the two high-scored ones were third and fourth
\* in retrieval order, and they are the two returned
C12_Witness ==
    \E w \in Workers :
        /\ log[w].rerank = "ok" /\ Len(docs[w]) = 4
        /\ TheScoring["d1"] = 2 /\ TheScoring["d2"] = 2
        /\ TheScoring["d3"] = 8 /\ TheScoring["d4"] = 8
        /\ state[w].source_documents = <<"d3", "d4">>

\* the ranking and the filter of a workload that has exactly one of each
TheSemanticRanking == CHOOSE ranking \in env.semantic : TRUE
TheKeywordRanking == CHOOSE ranking \in env.keyword : TRUE

\* the index in a list of the first document with a text
FirstIndex(documents, text) ==
    CHOOSE i \in 1..Len(documents) :
        /\ documents[i].page_content = text
        /\ \A j \in 1..(i - 1) : documents[j].page_content # text

\* C13: hybrid search returns the semantic results followed by the keyword
\* results with every later document of an already seen text removed: no two
\* documents of the result have equal text, every text of either branch is
\* there exactly once as its first document, in first-seen order, and the
\* result has at most 6 documents.
C13_HybridUnionDeduplicated ==
    \A w \in Workers :
        log[w].retrieval = "ok" =>
            LET semantic_docs ==
                    _semantic_search_sync(TheSemanticRanking, state[w].structured_query.filter)
                keyword_docs == _keyword_search_sync(TheKeywordRanking)
                combined == semantic_docs \o keyword_docs
                result == docs[w]
            IN  /\ \A i, j \in 1..Len(result) :
                      result[i].page_content = result[j].page_content => i = j
                /\ {result[i].page_content : i \in 1..Len(result)}
                     = {combined[i].page_content : i \in 1..Len(combined)}
                /\ \A i \in 1..Len(result) :
                      result[i] = combined[FirstIndex(combined, result[i].page_content)]
                /\ \A i, j \in 1..Len(result) :
                      i < j => FirstIndex(combined, result[i].page_content)
                                 < FirstIndex(combined, result[j].page_content)
                /\ Len(semantic_docs) <= SemanticK /\ Len(keyword_docs) <= KeywordK
                /\ Len(result) <= 6

\* a search whose semantic branch returned two documents of one text and whose
\* keyword branch returned that text again: three documents are left of six
C13_Witness ==
    \E w \in Workers :
        /\ log[w].retrieval = "ok"
        /\ TheSemanticRanking = <<c3, c4, c1, c2>> /\ TheKeywordRanking = <<c1, c2, c4>>
        /\ state[w].structured_query.filter = Metadata
        /\ docs[w] = <<c3, c4, c2>>

\* C14: the turn sequence of a thread only grows under process: every step
\* leaves the turns checkpointed before it as a prefix of the turns
\* checkpointed after it, and the turns checkpointed when a call started stay a
\* prefix of the thread's turns through the call and at its end; no turn is
\* removed, reordered or changed.
C14_TurnsAppendOnly ==
    [][/\ \A t \in Threads :
            IsPrefix(checkpoints[t].values.messages, checkpoints'[t].values.messages)
       /\ \A w \in Workers :
            pc'[w] # "idle" =>
                /\ IsPrefix(log'[w].before, state'[w].messages)
                /\ IsPrefix(log'[w].before, checkpoints'[tid'[w]].values.messages)]_vars

\* the third call on a thread has completed over the four turns of the two
\* calls before it
C14_Witness ==
    \E w \in Workers :
        /\ pc[w] = "done" /\ Len(log[w].before) = 4
        /\ Len(checkpoints[tid[w]].values.messages) = 6
        /\ SubSeq(checkpoints[tid[w]].values.messages, 1, 4) = log[w].before

\* C15: a history read changes nothing but what it returns: the checkpoint
\* store, the cache and every conversation and call state are as before it;
\* two reads of a thread in a row that the store answered return the same
\* sequence; and for a thread without a checkpoint the read returns the empty
\* sequence, not an error.
C15_HistoryReadOnly ==
    [][hist' # NoHist =>
          /\ UNCHANGED <<pc, tid, state, docs, answer, checkpoints, cache_store,
                         phi3_lock, reranker_lock, started, trace, log, calls,
                         overlapped, generations, cache_writes, env,
                         conversations, workflow, clock>>
          /\ hist'.error = "-"
          /\ ~checkpoints[hist'.thread].exists => hist'.messages = << >>
          /\ hist'.ok => hist'.messages = checkpoints[hist'.thread].values.messages
          /\ hist # NoHist /\ hist.ok /\ hist'.ok /\ hist.thread = hist'.thread =>
                hist'.messages = hist.messages]_vars

\* a read in the middle of a turn has returned the thread's turns, the new
\* user turn last, from a store that holds a checkpoint for the thread
C15_Witness ==
    /\ hist.thread = "T1" /\ hist.ok
    /\ Len(hist.messages) = 3 /\ Last(hist.messages).role = "user"
    /\ checkpoints["T1"].values.messages = hist.messages
    /\ cache_store # << >>

\* the turn has computed its answer: from the cache, or by generation
AnswerComputed(w) ==
    \/ log[w].lookup = "ok" /\ log[w].found # "None"
    \/ log[w].cache_write = "ok"

\* C16: when a checkpoint write fails after the answer of the turn has been
\* computed, process_sync still returns that answer to its caller.
C16_AnswerSurvivesPersistenceFailure ==
    \A w \in Workers :
        AnswerComputed(w) =>
            /\ pc[w] = "done"
            /\ Returned(w) = Last(state[w].messages).content
            /\ Last(state[w].messages).role = "assistant"

\* C17: once delete_conversation has completed for a conversation, no
\* checkpoint is left for its thread id and a history read of it returns the
\* empty sequence, also when the checkpoint store reported an error during
\* the deletion.
C17_DeletePurgesCheckpoints ==
    \A t \in Threads :
        t \notin conversations =>
            /\ ~checkpoints[t].exists
            /\ hist.thread = t /\ hist.ok => hist.messages = << >>

\* C18: without the accelerator, initialization fails, the graph is never
\* built, and every later process or history call is rejected as not
\* initialized with no refiner, cache, retrieval, generation or checkpoint
\* operation performed.
C18_NoDegradedStart ==
    ~env.cuda =>
        /\ workflow = "None"
        /\ \A w \in Workers : pc[w] = "idle" /\ trace[w] = << >> /\ log[w] = NoLog
        /\ \A t \in Threads :
              /\ checkpoints[t] = NoCheckpoint
              /\ \A i \in 1..Len(calls[t]) : calls[t][i].answer = NotInitialized
        /\ cache_store = << >> /\ cache_writes = 0 /\ generations = 0
        /\ hist # NoHist => hist.error = NotInitialized /\ hist.messages = << >>

\* on a host without CUDA, after the failed startup, a process call and then a
\* history call have both been rejected
C18_Witness ==
    /\ ~env.cuda
    /\ Len(calls["T1"]) = 1 /\ calls["T1"][1].answer = NotInitialized
    /\ hist.thread = "T1" /\ hist.error = NotInitialized

\* entry i of the cache is within the hit threshold of a query
WithinThreshold(i, query) ==
    One - CosineDistance(cache_store[i].page_content, query) >= CacheHitThreshold

\* C19: an entry expires 24 hours (two half-days) after it was stored and no
\* lookup extends that; a lookup never returns an entry whose time-to-live
\* has elapsed, and a lookup whose only entries within the threshold have
\* expired is a miss after which the turn goes on to retrieval.
C19_ExpiredNeverReturned ==
    [][/\ IsPrefix(clock.expires_at, clock'.expires_at)
       /\ Len(clock'.expires_at) = Len(cache_store')
       /\ Len(cache_store') > Len(cache_store) =>
             Last(clock'.expires_at) = clock.now + TtlHalfDays
       /\ \A w \in Workers :
             pc[w] = "check_cache" /\ log'[w].lookup = "ok" =>
                LET query == state[w].structured_query.refined_query
                    stored == 1..Len(cache_store)
                IN  /\ log'[w].found # "None" =>
                          \E i \in stored :
                              /\ clock.expires_at[i] > clock.now
                              /\ WithinThreshold(i, query)
                              /\ cache_store[i].response = log'[w].found
                    /\ (\A i \in stored :
                            WithinThreshold(i, query) => clock.expires_at[i] <= clock.now)
                          => log'[w].found = "None" /\ pc'[w] = "retrieve"]_vars

\* a lookup has missed although the cache holds the very query, in an entry
\* that had expired, next to a live entry that is too far from it
C19_Witness ==
    \E w \in Workers :
        /\ Checked(w) /\ log[w].found = "None" /\ pc[w] = "retrieve"
        /\ Len(cache_store) = 2 /\ Len(log[w].looked) = 1
        /\ \E i \in 1..2 :
              /\ cache_store[i].page_content = state[w].structured_query.refined_query
              /\ clock.expires_at[i] <= log[w].looked_at

\* C20: in every state after the RefineQuery step, the structured query of
\* the conversation state has a non-empty refined_query, whether refinement
\* succeeded, returned an empty or missing rewrite, or failed.
C20_RefinedQueryNonEmpty ==
    \A w \in Workers :
        log[w].refiner # "-" =>
            /\ state[w].structured_query.kind = "sq"
            /\ state[w].structured_query.refined_query # ""

\* C21: deduplication is idempotent: applied to the list a hybrid search
\* returned, which is its own output on the concatenated branch results, it
\* returns that list unchanged, same documents in the same order.
C21_DedupIdempotent ==
    \A w \in Workers :
        log[w].retrieval = "ok" =>
            _deduplicate_documents(docs[w]) = docs[w]

\* a search whose two branches shared a passage has returned four documents
\* out of five, and a second pass has nothing left to remove
C21_Witness ==
    \E w \in Workers :
        /\ log[w].retrieval = "ok"
        /\ TheSemanticRanking = <<c2, c5>> /\ TheKeywordRanking = <<c5, c6, c7>>
        /\ state[w].structured_query.filter = Metadata
        /\ Len(docs[w]) = 4 /\ docs[w][1] = c2 /\ docs[w][4] = c7

\* C22: a turn whose generation raised or produced empty output still ends
\* well: once generate_answer is over the pipeline is at Done, the assistant
\* turn appended for the turn is the apology text of that failure, and the
\* caller receives that apology as the answer.
C22_GenerationFailureYieldsApology ==
    \A w \in Workers :
        log[w].generation \in {"raised", "empty"} /\ pc[w] # "cache_write" =>
            LET apology == IF log[w].generation = "raised" THEN ApologyError
                                                           ELSE ApologyEmpty
            IN  /\ pc[w] = "done"
                /\ Last(state[w].messages) = AIMessage(apology)
                /\ Returned(w) = apology

\* C23: reranking is a stable descending sort by score followed by truncation
\* to 2: of two candidates with equal scores the earlier one in the
\* de-duplicated union comes first, so among equals it is the earlier ones
\* that are returned; a tie drops no candidate that truncation would keep and
\* does not fail the step, generation is next.
C23_RerankStableOnTies ==
    \A w \in Workers :
        log[w].rerank = "ok" =>
            LET returned == state[w].source_documents
                candidates == {docs[w][i].page_content : i \in 1..Len(docs[w])}
                left_out == candidates \ {returned[i] : i \in 1..Len(returned)}
            IN  /\ \A i, j \in 1..Len(returned) :
                      i < j /\ TheScoring[returned[i]] = TheScoring[returned[j]] =>
                          FirstIndex(docs[w], returned[i]) < FirstIndex(docs[w], returned[j])
                /\ \A t \in left_out : \A i \in 1..Len(returned) :
                      TheScoring[t] = TheScoring[returned[i]] =>
                          FirstIndex(docs[w], returned[i]) < FirstIndex(docs[w], t)
                /\ Len(returned) = IF Len(docs[w]) < TopM THEN Len(docs[w]) ELSE TopM
                /\ log[w].context = "-" => pc[w] = "generate"

\* three of four candidates tied on the high score behind a low-scored first
\* one: the second and third of the union are returned, in that order
C23_Witness ==
    \E w \in Workers :
        /\ log[w].rerank = "ok" /\ Len(docs[w]) = 4
        /\ TheScoring[docs[w][1].page_content] = 2
        /\ \A i \in 2..4 : TheScoring[docs[w][i].page_content] = 8
        /\ state[w].source_documents = <<docs[w][2].page_content, docs[w][3].page_content>>

\* C24: the context handed to generation is the retained passages, at most 2,
\* joined in rank order with one blank line between them; it is the marker
\* "No relevant documents were found." exactly when no passages were
\* retained, and never empty; and the reranker is not invoked on an empty
\* candidate set.
C24_ContextOfPassages ==
    \A w \in Workers :
        /\ log[w].context # "-" =>
              LET passages == state[w].source_documents
              IN  /\ Len(passages) <= 2
                  /\ Len(passages) = 0 => log[w].context = "No relevant documents were found."
                  /\ Len(passages) = 1 => log[w].context = passages[1]
                  /\ Len(passages) = 2 =>
                        log[w].context = passages[1] \o "\n\n" \o passages[2]
                  /\ log[w].context = NoDocsMarker <=> passages = << >>
                  /\ log[w].context # ""
        /\ log[w].retrieval = "ok" /\ docs[w] = << >> =>
              /\ pc[w] # "predict" /\ reranker_lock # w
              /\ log[w].rerank \in {"-", "skipped"}
        /\ log[w].rerank = "skipped" => docs[w] = << >> /\ state[w].source_documents = << >>

\* generation was given two passages in rank order, the reverse of their
\* retrieval order
C24_Witness ==
    \E w \in Workers :
        /\ docs[w] = <<c1, c2, c4>> /\ log[w].rerank = "ok"
        /\ log[w].context = "d2\n\nd1"
        /\ pc[w] = "inference"

\* the line of one turn in the conversational context
RoleLine(turn) ==
    IF turn.role = "user" THEN "User: " \o turn.content
                          ELSE "Assistant: " \o turn.content

\* C25: the conversational context given to the refiner is the first-question
\* marker exactly when no turn precedes the latest user turn on the thread;
\* otherwise it is the one or two turns immediately before the latest user
\* turn, in order, each labelled with its role, without the latest user turn
\* and without anything older; and on a thread of k completed turns it is the
\* k-th user text followed by the k-th assistant answer.
C25_ConversationContext ==
    \A w \in Workers :
        log[w].conversation_context # "-" =>
            LET before == log[w].before
                n == Len(before)
                context == log[w].conversation_context
                completed == calls[tid[w]]
                k == Len(completed)
            IN  /\ context = "This is the first question from the user." <=> n = 0
                /\ n = 1 => context = RoleLine(before[1])
                /\ n >= 2 => context = RoleLine(before[n - 1]) \o "\n" \o RoleLine(before[n])
                /\ k >= 1 /\ (\A i \in 1..k : completed[i].answer # Raised) =>
                      context = "User: " \o completed[k].query \o "\n"
                                  \o "Assistant: " \o completed[k].answer

\* the third turn of a thread: the context is the second turn's question and
\* answer, and the first turn's are not in it
C25_Witness ==
    \E w \in Workers :
        /\ Len(log[w].before) = 4 /\ Len(calls[tid[w]]) = 2
        /\ calls[tid[w]][1] = [query |-> "q2", answer |-> "a1"]
        /\ calls[tid[w]][2].query = "q1"
        /\ log[w].query = "q2"
        /\ log[w].conversation_context = "User: q1\nAssistant: " \o calls[tid[w]][2].answer

\* the fields of a filter that are set
SetFields(metadata_filter) ==
    {field \in {"company", "category"} : metadata_filter[field] # "None"}

\* C26: the where clause of the semantic branch has an equality condition for
\* exactly the filter fields that are set: no restriction when none is set, a
\* single equality when one is, the AND of both equalities when both are; and
\* the semantic results are the first k = 3 documents of the ranking that
\* carry the set fields' values.
C26_WhereClauseOfSetFields ==
    \A w \in Workers :
        log[w].retrieval = "ok" =>
            LET metadata_filter == state[w].structured_query.filter
                where_clause == log[w].where
                fields == SetFields(metadata_filter)
                satisfying == {i \in 1..Len(TheSemanticRanking) :
                                  \A field \in fields :
                                      TheSemanticRanking[i][field] = metadata_filter[field]}
                first == {i \in satisfying : Cardinality({j \in satisfying : j < i}) < 3}
            IN  /\ where_clause.eq = {<<field, metadata_filter[field]>> : field \in fields}
                /\ Cardinality(fields) = 0 => where_clause.op = "None"
                /\ Cardinality(fields) = 1 => where_clause.op = "$eq"
                /\ Cardinality(fields) = 2 => where_clause.op = "$and"
                /\ {docs[w][i].page_content : i \in 1..Len(docs[w])}
                      = {TheSemanticRanking[i].page_content : i \in first}

\* a filter with the category alone: a single equality, and the results are
\* the risk passages of both companies
C26_Witness ==
    \E w \in Workers :
        /\ log[w].retrieval = "ok"
        /\ state[w].structured_query.filter = [company |-> "None", category |-> "risks"]
        /\ log[w].where = [op |-> "$eq", eq |-> {<<"category", "risks">>}]
        /\ docs[w] = <<c2, c1, c4>>

\* whether a document carries the values of the filter's set fields
Satisfies(doc, metadata_filter) ==
    \A field \in SetFields(metadata_filter) : doc[field] = metadata_filter[field]

\* C27: the keyword branch is given the query and no filter: whatever the
\* filter of the turn, the passages of its first k = 3 ranked documents are all
\* in the candidate set, those of documents that do not satisfy the filter
\* included, and a candidate that does not satisfy the filter is one of them.
C27_KeywordBranchUnfiltered ==
    \A w \in Workers :
        log[w].retrieval = "ok" =>
            LET metadata_filter == state[w].structured_query.filter
                keyword == {i \in 1..Len(TheKeywordRanking) : i <= 3}
            IN  /\ \A i \in keyword :
                      TheKeywordRanking[i].page_content
                          \in {docs[w][j].page_content : j \in 1..Len(docs[w])}
                /\ \A j \in 1..Len(docs[w]) :
                      ~Satisfies(docs[w][j], metadata_filter) =>
                          \E i \in keyword : TheKeywordRanking[i] = docs[w][j]

\* under the filter AAPL / risks the keyword branch contributed a MSFT
\* financials passage, and it is one of the passages given to generation
C27_Witness ==
    \E w \in Workers :
        /\ state[w].structured_query.filter = [company |-> "AAPL", category |-> "risks"]
        /\ \E j \in 1..Len(docs[w]) : docs[w][j] = c6
        /\ \E i \in 1..Len(state[w].source_documents) : state[w].source_documents[i] = "d5"
        /\ log[w].context # "-"

\* C28: storing into the cache adds exactly one new entry and leaves every
\* entry already stored as it was, key, answer and creation time (the expiry
\* is the creation time plus the time-to-live), also when an entry with the
\* same key is already stored; no step of the service changes or removes an
\* entry.
C28_StoreAppendsOnly ==
    [][/\ IsPrefix(cache_store, cache_store')
       /\ IsPrefix(clock.expires_at, clock'.expires_at)
       /\ Len(clock'.expires_at) = Len(cache_store')
       /\ \A w \in Workers :
             log[w].cache_write # "ok" /\ log'[w].cache_write = "ok" =>
                /\ Len(cache_store') = Len(cache_store) + 1
                /\ Last(cache_store').page_content = state[w].structured_query.refined_query
                /\ Last(cache_store').response = Last(state'[w].messages).content
                /\ Last(clock'.expires_at) = clock.now + TtlHalfDays]_vars

\* the same refined query has been stored twice, by two turns that both
\* missed, and the store holds both entries
C28_Witness ==
    /\ Len(cache_store) = 2
    /\ cache_store[1].page_content = cache_store[2].page_content
    /\ cache_writes = 2

\* C29: the cache is keyed by the refined query alone and is one for all
\* threads: a lookup on any thread is a hit on any stored entry whose key has
\* similarity >= 0.90 to the refined query, whichever thread's turn stored it
\* and whether or not that conversation still exists, and the turn then ends
\* with that entry's answer; deleting a conversation removes no cache entry.
C29_CacheSharedAcrossThreads ==
    [][/\ conversations' # conversations =>
             cache_store' = cache_store /\ clock' = clock
       /\ \A w \in Workers :
             log[w].lookup # "ok" /\ log'[w].lookup = "ok"
               /\ (\E i \in 1..Len(cache_store) :
                      WithinThreshold(i, state[w].structured_query.refined_query)) =>
                 /\ \E i \in 1..Len(cache_store) :
                       /\ WithinThreshold(i, state[w].structured_query.refined_query)
                       /\ log'[w].found = cache_store[i].response
                 /\ Last(state'[w].messages) = AIMessage(log'[w].found)
                 /\ pc'[w] = "done"]_vars

\* the only entry was stored by the turn on T1; the first turn on T2 has ended
\* as a hit with its answer; conversation T1 has been deleted with its
\* checkpoints and the entry is still stored
C29_Witness ==
    /\ calls["T1"] = <<[query |-> "q1", answer |-> "a1"]>> /\ calls["T2"] = << >>
    /\ cache_writes = 1 /\ generations = 1
    /\ cache_store = <<CacheDocument("r1", "a1")>>
    /\ "T1" \notin conversations /\ ~checkpoints["T1"].exists
    /\ tid["w2"] = "T2" /\ pc["w2"] = "done"
    /\ log["w2"].found = "a1" /\ trace["w2"] = <<"RefineQuery", "CheckCache">>

\* C30: calls on one thread id are not serialized and the checkpoint is
\* last-write-wins: a second call for a thread can start while a first one is
\* in flight on it, and when a call completes, the latest checkpoint of its
\* thread is that call's own state, the turns it loaded at its start followed
\* by its user turn and its assistant turn, with nothing of a concurrent call
\* merged in.  So two overlapping calls can leave a latest checkpoint that
\* lacks some of their four turns.
C30_LastWriteWins ==
    [][\A w \in Workers :
          /\ pc[w] \notin {"idle", "done"} /\ pc'[w] = "done" =>
                /\ checkpoints'[tid[w]].values = state'[w]
                /\ Len(state'[w].messages) = Len(log[w].before) + 2
                /\ SubSeq(state'[w].messages, 1, Len(log[w].before) + 1)
                      = Append(log[w].before, HumanMessage(log[w].query))
                /\ Last(state'[w].messages).role = "assistant"
          /\ \A v \in Workers \ {w} :
                pc[w] \notin {"idle", "done", "raised"} /\ pc[v] = "idle"
                  /\ started < env.calls /\ tid[w] \in conversations =>
                    ENABLED StartProcess(v, tid[w], log[w].query)]_vars

\* two overlapping calls on T1 have both returned an answer to their callers,
\* and the latest checkpoint of T1 holds two of their four turns
C30_Witness ==
    /\ overlapped["T1"]
    /\ Len(calls["T1"]) = 2
    /\ \A i \in 1..2 : calls["T1"][i].answer # Raised
    /\ \A w \in Workers : pc[w] = "idle"
    /\ Len(checkpoints["T1"].values.messages) = 2

\* C31: each model lock is held exactly for the duration of one model call:
\* a worker holds the generation lock exactly while it is inside
\* run_phi3_inference_sync and the reranker lock exactly while it is inside
\* rerank_documents_sync, so a worker that is refining, looking up the cache,
\* retrieving, writing the cache or checkpointing holds neither; both ways out
\* of a model call, return and raise, leave the lock free of that worker; and
\* at most one scoring call is in flight.
C31_LocksHeldOnlyInModelCalls ==
    /\ phi3_lock \in Workers \cup {NoWorker}
    /\ reranker_lock \in Workers \cup {NoWorker}
    /\ \A w \in Workers :
          /\ phi3_lock = w <=> pc[w] = "inference"
          /\ reranker_lock = w <=> pc[w] = "predict"
          /\ pc[w] \in {"query_construct", "analyze", "check_cache", "retrieve",
                        "rerank", "generate", "cache_write", "done", "raised",
                        "idle"} => phi3_lock # w /\ reranker_lock # w
          /\ log[w].rerank \in {"ok", "raised"} => reranker_lock # w
          /\ log[w].generation \in {"ok", "empty", "raised"} => phi3_lock # w
    /\ \A w, v \in Workers : pc[w] = "predict" /\ pc[v] = "predict" => w = v

\* one worker is inside the scoring call and holds the reranker lock, the
\* other has candidates to score and is held at its door; the generation lock
\* is free
C31_Witness ==
    \E w, v \in Workers :
        /\ w # v /\ pc[w] = "predict" /\ reranker_lock = w
        /\ pc[v] = "rerank" /\ docs[v] # << >>
        /\ phi3_lock = NoWorker

\* C32: every process call finishes: under fair scheduling of the worker
\* threads a call in flight reaches Done or raises, and then returns to its
\* caller; it runs at most the four pipeline nodes (refinement, cache check,
\* retrieval with reranking, generation), and no worker ever holds both model
\* locks, so no turn waits forever at a lock.
C32_EveryCallFinishes ==
    /\ [](\A w \in Workers :
            /\ ~(phi3_lock = w /\ reranker_lock = w)
            /\ IsPrefix(trace[w], PathMiss))
    /\ \A w \in Workers : (pc[w] # "idle") ~> (pc[w] \in {"done", "raised"})
    /\ \A w \in Workers : (pc[w] \in {"done", "raised"}) ~> (pc[w] = "idle")

\* a turn waits at the generation lock, which the turn of the other
\* conversation holds inside its model call, while the reranker lock is free
C32_Witness ==
    \E w, v \in Workers :
        /\ tid[w] = "T1" /\ tid[v] = "T2"
        /\ pc[w] = "generate" /\ ~ENABLED generate_answer(w)
        /\ pc[v] = "inference" /\ phi3_lock = v
        /\ reranker_lock = NoWorker

\* C33: a process call on one thread leaves the checkpointed state of every
\* other thread as it was, so a history read of the other thread returns the
\* same turns before and after it, whether the turns of the two threads run
\* one after the other or at the same time; a step of one worker's call
\* changes nothing of the other worker's call (its state, candidates, answer,
\* position); what the calls of different threads share is the semantic cache.
C33_OtherThreadsUntouched ==
    [][\A w \in Workers :
          pc'[w] # pc[w] =>
             LET t == IF tid'[w] # "-" THEN tid'[w] ELSE tid[w]
             IN  /\ \A u \in Threads \ {t} :
                       /\ checkpoints'[u] = checkpoints[u]
                       /\ calls'[u] = calls[u]
                 /\ \A v \in Workers \ {w} :
                       /\ state'[v] = state[v] /\ docs'[v] = docs[v]
                       /\ answer'[v] = answer[v] /\ pc'[v] = pc[v]
                       /\ tid'[v] = tid[v] /\ trace'[v] = trace[v]
                 /\ hist' # NoHist /\ hist'.ok =>
                       hist'.messages = checkpoints[hist'.thread].values.messages]_vars

\* a turn on T2 has completed and been checkpointed while a turn on T1 was in
\* flight; T1's checkpoint holds T1's own user turn only, and the cache holds
\* the entry T2's turn stored
C33_Witness ==
    /\ tid["w1"] = "T1" /\ pc["w1"] = "retrieve"
    /\ checkpoints["T1"].values.messages = <<HumanMessage("q1")>>
    /\ tid["w2"] = "T2" /\ pc["w2"] = "done"
    /\ checkpoints["T2"].values.messages = <<HumanMessage("q1"), AIMessage("a1")>>
    /\ Len(cache_store) = 1

\* C34: up to and including its cache check a turn changes only the turn
\* sequence, the structured query and the cache-hit flag of the conversation
\* state: the source documents it loaded from the thread's checkpoint, set by
\* an earlier miss turn or unset, stay as loaded, and the cache is not written;
\* a turn that ends on a hit is checkpointed in that state, with the stored
\* answer appended and the flag true.
C34_HitKeepsSourceDocuments ==
    [][\A w \in Workers :
          /\ pc[w] = "idle" /\ pc'[w] # "idle" =>
                /\ state'[w].source_documents
                      = checkpoints[tid'[w]].values.source_documents
                /\ state'[w].docs_set = checkpoints[tid'[w]].values.docs_set
          /\ pc[w] \in {"query_construct", "analyze", "check_cache"} =>
                /\ state'[w].source_documents = state[w].source_documents
                /\ state'[w].docs_set = state[w].docs_set
                /\ cache_store' = cache_store /\ clock' = clock
          /\ pc[w] = "check_cache" /\ pc'[w] = "done" =>
                /\ state'[w].messages
                      = Append(state[w].messages, AIMessage(log'[w].found))
                /\ state'[w].cache_hit = "True"
                /\ state'[w].structured_query = state[w].structured_query
                /\ checkpoints'[tid[w]].values = state'[w]]_vars

\* a turn has ended on a hit and its checkpoint still holds the two passages
\* an earlier miss turn of the thread retained
C34_Witness ==
    \E w \in Workers :
        /\ pc[w] = "done" /\ trace[w] = PathHit /\ state[w].cache_hit = "True"
        /\ state[w].source_documents = <<"d2", "d1">>
        /\ checkpoints[tid[w]].values.source_documents = <<"d2", "d1">>
        /\ Len(log[w].before) = 2

\* C35: the cache check of every turn writes the cache-hit flag before the
\* edge after it reads it: from the check on, the flag is true exactly when
\* the lookup of this turn returned an entry, whatever flag the thread's
\* checkpoint held, and a turn whose lookup returned nothing goes on to
\* retrieval; in the final state of a completed turn the flag is true exactly
\* when the assistant answer is the cached one and generation was not invoked.
C35_FlagRewrittenEveryTurn ==
    \A w \in Workers :
        /\ Checked(w) =>
              /\ state[w].cache_hit = IF log[w].found # "None" THEN "True" ELSE "False"
              /\ log[w].found = "None" /\ pc[w] = "done" => log[w].generation # "-"
              /\ log[w].found # "None" => pc[w] = "done" /\ log[w].retrieval = "-"
        /\ pc[w] = "done" =>
              /\ state[w].cache_hit \in {"True", "False"}
              /\ state[w].cache_hit = "True" <=>
                    /\ log[w].generation = "-"
                    /\ log[w].found # "None"
                    /\ Last(state[w].messages) = AIMessage(log[w].found)

\* the third turn of a thread whose second turn ended on a hit, so that the
\* checkpoint it loaded held a true flag, has missed, generated its answer and
\* completed with the flag false
C35_Witness ==
    \E w \in Workers :
        /\ pc[w] = "done" /\ trace[w] = PathMiss /\ state[w].cache_hit = "False"
        /\ Len(calls[tid[w]]) = 2
        /\ calls[tid[w]][1].answer = "a1" /\ calls[tid[w]][2].answer = "a1"
        /\ generations = 2 /\ cache_writes = 2

\* C36: no checkpoint exists for a thread id whose conversation record has
\* been deleted once the requests have finished: in particular, after the
\* deletion has purged the checkpoints of the thread, no step of a chat
\* request that passed its ownership check before the deletion writes a
\* checkpoint for that thread id again.
C36_NoCheckpointAfterPurge ==
    [][\A t \in Threads :
          t \notin conversations /\ ~checkpoints[t].exists => ~checkpoints'[t].exists]_vars

\* C37: the pipeline and the history read are invoked for a thread id only
\* when a conversation record with that id exists and belongs to the
\* requesting user: a chat or messages request for a missing conversation or
\* for one of another user is answered 'not found' and performs no refiner,
\* cache, retrieval, generation or checkpoint operation; it changes nothing.
C37_OnlyOwnedConversations ==
    [][/\ \A w \in DOMAIN env.serves, user \in Users, t \in Threads, query \in UserTexts :
             chat(w, user, t, query) /\ ~(t \in conversations /\ user_id[t] = user) =>
                /\ calls'[t] = Append(calls[t], [query |-> query, answer |-> NotFound])
                /\ UNCHANGED <<pc, tid, state, docs, answer, checkpoints, cache_store,
                               phi3_lock, reranker_lock, trace, log, generations,
                               cache_writes, conversations, workflow, clock>>
       /\ \A user \in Users, t \in Threads :
             get_messages(user, t) /\ ~(t \in conversations /\ user_id[t] = user) =>
                /\ hist'.error = NotFound /\ ~hist'.ok /\ hist'.messages = << >>
                /\ UNCHANGED <<pc, tid, state, docs, answer, checkpoints, cache_store,
                               phi3_lock, reranker_lock, trace, log, generations,
                               cache_writes, conversations, workflow, clock>>
       /\ \A w \in Workers :
             pc[w] = "idle" /\ pc'[w] # "idle" =>
                tid'[w] \in conversations /\ Len(calls'[tid'[w]]) = Len(calls[tid'[w]])
       /\ hist' # NoHist /\ hist'.ok => hist'.thread \in conversations]_vars

\* the conversation of the other user holds the answered turn of its owner and
\* has then refused a chat request, its checkpoint still that of the owner's
\* turn; the deleted conversation has just refused a messages request
C37_Witness ==
    /\ "T2" \in conversations /\ "T1" \notin conversations
    /\ Len(calls["T2"]) = 2
    /\ calls["T2"][1] = [query |-> "q1", answer |-> "a1"]
    /\ calls["T2"][2] = [query |-> "q1", answer |-> NotFound]
    /\ checkpoints["T2"].values.messages = <<HumanMessage("q1"), AIMessage("a1")>>
    /\ hist = [NoHist EXCEPT !.thread = "T1", !.ok = FALSE, !.error = NotFound]
    /\ \A w \in Workers : pc[w] = "idle"

\* C38: when reading the checkpoint store fails during a history read,
\* get_conversation_history_sync returns the empty sequence and raises
\* nothing, which is all that a read of a thread without history gives its
\* caller; the stored checkpoint is as it was before the read.
C38_FailedReadLooksEmpty ==
    [][hist' # NoHist /\ ~hist'.ok =>
          /\ hist'.messages = << >>
          /\ hist'.error = "-"
          /\ [hist' EXCEPT !.ok = TRUE] = [NoHist EXCEPT !.thread = hist'.thread]
          /\ checkpoints' = checkpoints]_vars

\* a read of a thread whose checkpoint holds a completed turn has failed at
\* the store and returned the empty sequence; the checkpoint still holds the turn
C38_Witness ==
    /\ hist.thread = "T1" /\ ~hist.ok /\ hist.messages = << >> /\ hist.error = "-"
    /\ checkpoints["T1"].exists
    /\ Len(checkpoints["T1"].values.messages) = 2
    /\ Last(checkpoints["T1"].values.messages).role = "assistant"
====
